---- MODULE Spec2Model ----
(***************************************************************************)
(* Gmail -> IMAP transfer: the Progress Store (progress_manager.py), the   *)
(* Transfer Engine (transfer_orchestrator.py) with its per-label           *)
(* fetcher/uploader pipeline, and the IMAP Sink's upload_message           *)
(* (imap_client.py), modelled as a state machine over consecutive runs of  *)
(* the program against one progress file.                                  *)
(***************************************************************************)
EXTENDS Integers, Sequences, FiniteSets, TLC

(* ------------------------------ bounds -------------------------------- *)
\* number of consecutive runs of the program that are explored
MaxRuns == 2
\* queue.Queue(maxsize=100) in the source; a small capacity keeps the
\* back-pressure cases (full queue) within reach
QueueCap == 1
\* settings.batch_size (default 50)
BatchSize == 2
\* settings.progress_save_interval (default 50)
SaveInterval == 2
\* the deliveries of one ref by the Gmail Source are counted up to this number
MaxFetches == 2
\* upload_message calls on one IMAPClient object without any error
MaxAppends == 201
\* the clock of the timed uploader: it advances in steps of TickSeconds from
\* StartClock up to MaxClock (seconds), and MaxSaverUploads uploads are made
TickSeconds == 10
StartClock == 30
MaxClock == 100
MaxSaverUploads == 5
\* get_messages_batch: max_batch_size (25 in the source) and the longest list
\* of refs that is requested
MaxBatchSize == 2
MaxRequest == 3
MaxFolderCalls == 3
MaxNameLen == 3
MaxInsertions == 2
MaxStoreCalls == 4
MaxItems == 3

(* ------------------------- program constants -------------------------- *)
\* utils.safe_transfer(max_retries=3)
SafeTransferRetries == 3
\* IMAPClient.upload_message: max_retries = 3
UploadRetries == 3
\* IMAPClient.max_uploads_per_connection
MaxUploadsPerConnection == 100
\* IMAPClient._should_recycle_connection: connection_errors >= 10
MaxConnectionErrors == 10
\* ProgressManager.save_progress_batch: a save is due 30 seconds after the last
SaveSeconds == 30
\* GmailClient.get_messages_batch: max_retries = 3, and range(3) of the
\* single-item fallback
BatchRetries == 3
IndividualRetries == 3

(* --------------------------- source accounts -------------------------- *)
\* The Gmail account is an input of the program; three accounts are explored.
\* "L1" and "L2" are user labels (the id differs from the name), "INBOX" is
\* a label whose id equals its name, "CHAT" is a filtered system label.
\*   "one":   a user label with three messages (two batches)
\*   "two":   INBOX with two messages, and an empty user label
\*   "three": a user label and INBOX, which share their only message
Accounts == {"one", "two", "three"}
LabelIds == {"L1", "L2", "INBOX"}
MsgIds == {"a", "b", "c"}

\* gmail_client.get_labels(): the labels of the account, in provider order
get_labels(account) ==
    IF account = "one"
    THEN << [id |-> "L1", name |-> "Work"],
            [id |-> "CHAT", name |-> "CHAT"] >>
    ELSE IF account = "two"
    THEN << [id |-> "INBOX", name |-> "INBOX"],
            [id |-> "CHAT", name |-> "CHAT"],
            [id |-> "L2", name |-> "Empty"] >>
    ELSE << [id |-> "L1", name |-> "Work"],
            [id |-> "INBOX", name |-> "INBOX"] >>

\* gmail_client.get_messages_by_label(label_id): the message ids of a label
\* (the source state is the same in every run)
get_messages_by_label(account, label_id) ==
    IF account = "one"
    THEN (IF label_id = "L1" THEN <<"a", "b", "c">> ELSE <<>>)
    ELSE IF account = "two"
    THEN (IF label_id = "INBOX" THEN <<"a", "b">> ELSE <<>>)
    ELSE (IF label_id \in {"L1", "INBOX"} THEN <<"a">> ELSE <<>>)

system_labels ==
    {"CHAT", "CATEGORY_FORUMS", "CATEGORY_UPDATES", "CATEGORY_PROMOTIONS", "CATEGORY_SOCIAL"}

\* run(): labels = [label for label in labels if label['id'] not in system_labels]
IsTransferLabel(label) == label.id \notin system_labels

(* ------------------------------ helpers ------------------------------- *)
Min(x, y) == IF x < y THEN x ELSE y
Range(s) == {s[k] : k \in 1..Len(s)}
EmptyMap == [x \in {} |-> <<>>]

(* --------------------------- Progress Store --------------------------- *)
\* load_progress(): the fresh record created when the file is absent or
\* cannot be parsed (session_id is a timestamp and is not modelled)
FreshProgress ==
    [ total_labels |-> 0,
      completed_labels |-> 0,
      current_label |-> "",
      transferred_messages |-> EmptyMap ]

\* the progress file: absent, truncated (opened with 'w', not yet dumped)
\* or holding a complete JSON document
NoFile == [state |-> "absent", rec |-> FreshProgress]

\* load_progress()
load_progress(file) ==
    IF file.state = "ok" THEN file.rec ELSE FreshProgress

\* faulty variant of is_message_transferred: it never finds a ref (C2 fails with it)
is_message_transferred_never(p, message_id, label) == FALSE

\* is_message_transferred(message_id, label)
is_message_transferred(p, message_id, label) ==
    /\ label \in DOMAIN p.transferred_messages
    /\ message_id \in Range(p.transferred_messages[label])

\* faulty variant of mark_message_completed: the ref is appended without
\* looking for it in the list (C28 fails with it)
mark_message_completed_unchecked(p, message_id, label) ==
    LET t == p.transferred_messages
        t1 == IF label \in DOMAIN t THEN t
              ELSE [x \in DOMAIN t \cup {label} |-> IF x = label THEN <<>> ELSE t[x]]
    IN [p EXCEPT !.transferred_messages = [t1 EXCEPT ![label] = Append(@, message_id)]]

\* mark_message_completed(message_id, label): no save
mark_message_completed(p, message_id, label) ==
    LET t == p.transferred_messages
        t1 == IF label \in DOMAIN t THEN t
              ELSE [x \in DOMAIN t \cup {label} |-> IF x = label THEN <<>> ELSE t[x]]
        t2 == IF message_id \in Range(t1[label]) THEN t1
              ELSE [t1 EXCEPT ![label] = Append(@, message_id)]
    IN [p EXCEPT !.transferred_messages = t2]

\* is_label_completed(label)
is_label_completed(p, label) ==
    /\ p.current_label # label
    /\ label \in DOMAIN p.transferred_messages


(* ------------------------------- state -------------------------------- *)
VARIABLES
    account,            \* the Gmail account the program is configured for
    run,                \* number of the current run of the program
    progress_file,      \* progress.json on disk (survives the process)
    progress,           \* ProgressManager.progress (in memory)
    last_save_time,     \* ProgressManager._last_save_time: 0, or 1 for a later time
    message_cache,      \* GmailToImapTransfer.message_cache (its keys)
    shutdown_requested, \* GmailToImapTransfer.shutdown_requested
    active_threads,     \* label ids of the entries of active_threads
    imap_client,        \* IMAPClient.client: "none", "connected", "logged_out"
    main,               \* position of run() / transfer_label(); raised: an exception leaves run()
    fetcher,            \* per label: the gmail_fetcher_thread of its pipeline
    uploader,           \* per label: the imap_uploader_thread of its pipeline
    message_queue,      \* per label: message_queue of its pipeline
    stop_event,         \* per label: stop_event of its pipeline
    obs,                \* observations of the runs (history, not program state)
    imap,               \* an IMAPClient object, its upload_message called in isolation
    wire,               \* what the IMAP server has seen of that object (history)
    batch_call,         \* a call of GmailClient.get_messages_batch in isolation
    source,             \* what the Gmail Source answered during that call (history)
    saver,              \* the uploader's periodic save_progress_batch, with a clock
    folders,            \* an IMAPClient and its server, as far as folder names go
    mapper,             \* create_folder_mappings applied to one label name
    flag_call,          \* one message on its way from the Gmail answer to APPEND
    counters,           \* the two stages updating cache_misses, bytecode by bytecode
    store,              \* a ProgressManager with mark_message_completed called on it
    item_call           \* the uploader's loop body, item after item, with its counts

\* the engine: the program as run() drives it
engine_vars == << account, run, progress_file, progress, last_save_time, message_cache,
                  shutdown_requested, active_threads, imap_client, main, fetcher, uploader,
                  message_queue, stop_event, obs >>
\* the components that are also examined on their own
unit_vars == << imap, wire, batch_call, source, saver, folders, mapper, flag_call, counters, store,
               item_call >>

vars == << engine_vars, unit_vars >>

\* run(): the labels that are transferred, in order
labels == SelectSeq(get_labels(account), IsTransferLabel)
\* the message ids of a label of the configured account
message_ids(l) == get_messages_by_label(account, l)

Sentinel == "None"

\* `late` is history: the call the thread is in (get_messages_batch for the
\* fetcher, transfer_message_from_cache for the uploader) was begun after the
\* signal handler had set shutdown_requested
FetcherIdle ==
    [pc |-> "idle", i |-> 1, j |-> 1, to_fetch |-> {}, error |-> FALSE, late |-> FALSE]
UploaderIdle ==
    [pc |-> "idle", item |-> "", messages_processed |-> 0, late |-> FALSE]
\* a thread that has ended has no locals left
UploaderDone == [UploaderIdle EXCEPT !.pc = "done"]

\* what the observer remembers of the runs
ObsInit ==
    [ loaded |-> FreshProgress,       \* the record the current run loaded
      issued |-> {},                  \* (label, ref): an APPEND was sent in this run
      succeeded |-> {},               \* (label, ref): an APPEND was answered OK in this run
      failed |-> {},                  \* (label, ref): APPEND was sent, the transfer gave up
      fetches |-> [m \in MsgIds |-> 0], \* ref: times the Gmail Source delivered it in this run
      append_failed |-> FALSE,        \* an APPEND attempt failed in this run
      call_failed |-> FALSE,          \* a Gmail call or the client setup failed in this run
      prev |-> "none",                \* how the previous run ended: "none", "killed", "exited"
      prev_clean |-> FALSE,           \* previous run: no APPEND attempt failed, no signal
      prev_retry |-> {},              \* previous run: upload gave up, others of the label uploaded
      prev_uploaded |-> {},           \* "succeeded" of the previous run
      \* the stats dict of the pipeline that is running: skipped, uploaded and
      \* errors, and (history) the number of refs that transferred_messages
      \* held for the label when the pipeline started
      stats |-> [skipped |-> 0, uploaded |-> 0, errors |-> 0, before |-> 0] ]

\* the deliveries counted so far, after the source has delivered the refs of
\* `got` once more (the count stops at MaxFetches)
Fetched(fetches, got) ==
    [m \in MsgIds |-> IF m \in got THEN Min(fetches[m] + 1, MaxFetches) ELSE fetches[m]]

\* ProgressManager.__init__ and GmailToImapTransfer.__init__: the state of a
\* freshly started process
Construct(file) ==
    /\ progress' = load_progress(file)
    /\ last_save_time' = 0
    /\ message_cache' = {}
    /\ shutdown_requested' = FALSE
    /\ active_threads' = {}
    /\ imap_client' = "none"
    /\ main' = [pc |-> "setup", li |-> 1, raised |-> FALSE, late |-> FALSE]
    /\ fetcher' = [l \in LabelIds |-> FetcherIdle]
    /\ uploader' = [l \in LabelIds |-> UploaderIdle]
    /\ message_queue' = [l \in LabelIds |-> <<>>]
    /\ stop_event' = [l \in LabelIds |-> FALSE]

\* IMAPClient.__init__: no uploads and no errors yet, connect() has logged in
\* (a failed connect() raises out of the constructor: no object exists)
ImapNew == [client |-> "connected", total_uploads |-> 0, connection_errors |-> 0]

\* nothing has been observed on the wire yet:
\*   clean    so far every command was answered OK and the session never
\*            reached the age of max_connection_duration
\*   appends  APPEND commands the server has received (counted while clean)
\*   logouts  LOGOUT commands the server has received (counted while clean)
\*   last     the commands of the last upload_message call, in order
\*   returned the last upload_message call returned (else it raised)
\*   called   upload_message has been called
\*   before   the object when the last call began
\*   attempts the iterations of the last call: the commands of each and the
\*            object after it
WireInit ==
    [clean |-> TRUE, appends |-> 0, logouts |-> 0, last |-> <<>>, returned |-> TRUE,
     called |-> FALSE, before |-> ImapNew, attempts |-> <<>>]

\* get_messages_batch is not being called
\*   i         start of the chunk in message_ids (1-based)
\*   batch_ids the refs the next batch request asks for
\*   k         position of the fallback loop "for msg_id in batch_ids"
BatchIdle ==
    [pc |-> "idle", message_ids |-> <<>>, i |-> 1, batch_ids |-> <<>>, attempt |-> 0,
     all_messages |-> {}, k |-> 1, individual_attempt |-> 0]

\* nothing has been answered by the source yet:
\*   as_p5     so far the source answered as in the rate-limit scenario: 429
\*             (per item or for the batch) only on the first attempt of a
\*             chunk, success on every later attempt
\*   limited_chunks  chunks whose first attempt met a 429
\*   limited   refs of the current chunk that met a 429 in every batch
\*             attempt of the chunk so far
\*   starved   refs that were still missing after the last batch attempt of
\*             their chunk and had met a 429 in every attempt
\*   singles   refs that were requested by a single-item fetch
\*   tries     single-item requests made for the ref being fetched singly
\*   failed    refs of the current chunk whose sub-request was answered with
\*             an error other than 429 in the batch attempt before this one
SourceInit ==
    [as_p5 |-> TRUE, limited_chunks |-> 0, limited |-> {}, starved |-> {}, singles |-> {},
     tries |-> 0, failed |-> {}]

\* the uploader is not running against the clock:
\*   now       time.time(), in seconds
\*   unsaved   the times at which the refs were marked that the progress
\*             file does not hold yet, oldest first (history)
\*   last_write  the time at which the progress file was last written, by
\*             save_progress_batch() or by a direct save_progress() (history)
\*   flush     the last call of save_progress_batch(): its argument, whether
\*             it wrote, and the time since the last write before it (history)
SaverIdle ==
    [now |-> 0, last_save_time |-> 0, messages_processed |-> 0, unsaved |-> <<>>,
     last_write |-> 0, flush |-> [called |-> FALSE, force |-> FALSE, wrote |-> FALSE, since |-> 0]]

\* The components examined on their own, at rest.
\* folders: an IMAPClient and the server it talks to, as far as folder names go
\*   answer            what the server says to CAPABILITY / NAMESPACE
\*   namespace_prefix  IMAPClient.namespace_prefix
\*   mailboxes         the folders that exist on the server
\*   op, folder_name   the last call on the client and its argument
\*   commands          the commands that call sent, each with the name it used
\*   returned          the call returned (FALSE: it raised)
\*   prev              the call before it and the server's folders after it
\*   calls             number of calls so far
\* mapper: create_folder_mappings at work on one label
\*   label_mappings  config['settings']['label_mappings']
\*   label_name      the label's display name
\*   folder_name     the folder name the loop body computed for it ("mapped")
\*   again           the folder name computed for that folder name ("remapped")
\* flag_call: one message from the Gmail answer to the APPEND command
\*   message_data   the Gmail answer, as far as labelIds goes
\*   path           "batch" (fetcher) or "single" (transfer_message)
\*   cached         the flags entry of the cache
\*   appended       the flag list handed to client.append
\* counters: cache_misses updated by the two stages of a pipeline
\*   cache_misses  GmailToImapTransfer.cache_misses
\*   inserted      number of cache insertions performed so far (history)
\*   fetcher       the fetcher's insertions: todo, position, value on its stack
\*   uploader      the same for the uploader's fallback in transfer_message
\* store: a ProgressManager on its own
\*   progress   ProgressManager.progress
\*   writes     number of times the progress file was opened for writing
\*   call       the last call: operation, arguments, the state before it, and
\*              whether the call before it was the same call
\*   n          number of calls so far
\* item_call: the uploader thread taking items off the queue
\*   client     the IMAP client of the engine
\*   cached     the last item was in the cache when its transfer began
\*   appends    APPEND commands sent for the last item
\*   returned   the transfer call of the last item returned (else it raised)
\*   items      items taken so far
\*   uploaded, errors   stats['uploaded'], stats['errors']
Idle ==
    [ folders |->
        [ answer |-> [capability |-> FALSE, raises |-> FALSE, personal |-> <<>>],
          namespace_prefix |-> <<>>, mailboxes |-> {}, op |-> "none", folder_name |-> <<>>,
          commands |-> <<>>, returned |-> FALSE,
          prev |-> [op |-> "none", folder_name |-> <<>>, commands |-> <<>>,
                    returned |-> FALSE, mailboxes |-> {}],
          calls |-> 0 ],
      mapper |->
        [ pc |-> "idle", label_mappings |-> EmptyMap, label_name |-> <<>>,
          folder_name |-> <<>>, again |-> <<>> ],
      flag_call |->
        [ pc |-> "idle", message_data |-> [has_labelIds |-> FALSE, labelIds |-> {}],
          path |-> "none", cached |-> <<>>, appended |-> <<>> ],
      counters |->
        [ cache_misses |-> 0, inserted |-> 0,
          fetcher |-> [pc |-> "done", todo |-> 0, tos |-> 0],
          uploader |-> [pc |-> "done", todo |-> 0, tos |-> 0] ],
      store |->
        [ progress |-> FreshProgress, writes |-> 0,
          call |-> [op |-> "none", label |-> "", message_id |-> "",
                    before |-> FreshProgress, writes_before |-> 0, repeat |-> FALSE],
          n |-> 0 ],
      item_call |->
        [ client |-> "connected", cached |-> FALSE, appends |-> 0, returned |-> TRUE,
          items |-> 0, uploaded |-> 0, errors |-> 0 ] ]

PartsIdle ==
    /\ folders = Idle.folders
    /\ mapper = Idle.mapper
    /\ flag_call = Idle.flag_call
    /\ counters = Idle.counters
    /\ store = Idle.store
    /\ item_call = Idle.item_call

UnitIdle ==
    /\ imap = ImapNew
    /\ wire = WireInit
    /\ batch_call = BatchIdle
    /\ source = SourceInit
    /\ saver = SaverIdle
    /\ PartsIdle

\* the engine before its first run
EngineInit ==
    /\ run = 1
    /\ progress_file = NoFile
    /\ progress = load_progress(NoFile)
    /\ last_save_time = 0
    /\ message_cache = {}
    /\ shutdown_requested = FALSE
    /\ active_threads = {}
    /\ imap_client = "none"
    /\ main = [pc |-> "setup", li |-> 1, raised |-> FALSE, late |-> FALSE]
    /\ fetcher = [l \in LabelIds |-> FetcherIdle]
    /\ uploader = [l \in LabelIds |-> UploaderIdle]
    /\ message_queue = [l \in LabelIds |-> <<>>]
    /\ stop_event = [l \in LabelIds |-> FALSE]
    /\ obs = ObsInit

Init ==
    /\ account \in Accounts
    /\ EngineInit
    /\ UnitIdle

FetcherAlive(l) == fetcher[l].pc \notin {"idle", "done"}
UploaderAlive(l) == uploader[l].pc \notin {"idle", "done"}
ThreadsAlive == \E l \in LabelIds : FetcherAlive(l) \/ UploaderAlive(l)

\* save_progress(): open(progress_file, 'w') truncates the file ... (rec of a
\* truncated file is what the file held before: it is gone from the disk,
\* load_progress cannot see it, the observer can)
OpenForWrite(file) == [state |-> "truncated", rec |-> file.rec]
\* ... and json.dump(self.progress, file) then writes the document
Dumped(p) == [state |-> "ok", rec |-> p]

(* ---------------------------- main thread ----------------------------- *)
\* run(): setup_clients(), get_labels(), create_folder_mappings(labels) up to
\* the open() of its save_progress(); an exception of a client goes to finally
Setup ==
    /\ main.pc = "setup"
    /\ \/ /\ imap_client' = "connected"
          /\ progress_file' = OpenForWrite(progress_file)
          /\ main' = [main EXCEPT !.pc = "w_mapping"]
          /\ UNCHANGED obs
       \/ /\ \E c \in {"none", "connected"} : imap_client' = c
          /\ main' = [main EXCEPT !.pc = "finally", !.raised = TRUE]
          /\ obs' = [obs EXCEPT !.call_failed = TRUE]
          /\ UNCHANGED progress_file
    /\ UNCHANGED << unit_vars, account, run, progress, last_save_time, message_cache, shutdown_requested, active_threads,
                    fetcher, uploader, message_queue, stop_event >>

\* the pc after the json.dump of each save_progress() of the main thread
AfterDump(pc) ==
    CASE pc = "w_mapping" -> "total"
      [] pc = "w_total" -> "label"
      [] pc = "w_current" -> "list"
      [] pc = "w_final" -> "count"
      [] pc = "w_count" -> "next"

\* save_progress(): json.dump completes (main thread)
MainDump ==
    /\ main.pc \in {"w_mapping", "w_total", "w_current", "w_final", "w_count"}
    /\ progress_file' = Dumped(progress)
    /\ main' = [main EXCEPT !.pc = AfterDump(main.pc)]
    /\ UNCHANGED << unit_vars, account, run, progress, last_save_time, message_cache, shutdown_requested, active_threads,
                    imap_client, fetcher, uploader, message_queue, stop_event, obs >>

\* run(): progress['total_labels'] = len(labels); save_progress() opens the file
SetTotal ==
    /\ main.pc = "total"
    /\ progress' = [progress EXCEPT !.total_labels = Len(labels)]
    /\ progress_file' = OpenForWrite(progress_file)
    /\ main' = [main EXCEPT !.pc = "w_total"]
    /\ UNCHANGED << unit_vars, account, run, last_save_time, message_cache, shutdown_requested, active_threads,
                    imap_client, fetcher, uploader, message_queue, stop_event, obs >>

\* run(): for label in labels: transfer_label(label, ...), up to the open() of
\* the save_progress() that records current_label; after the last label the
\* loop ends and control reaches finally
TransferLabel ==
    /\ main.pc = "label"
    /\ IF main.li > Len(labels)
       THEN /\ main' = [main EXCEPT !.pc = "finally"]
            /\ UNCHANGED << progress, progress_file >>
       ELSE IF is_label_completed(progress, labels[main.li].id)
       THEN /\ main' = [main EXCEPT !.pc = "count"]
            /\ UNCHANGED << progress, progress_file >>
       ELSE /\ progress' = [progress EXCEPT !.current_label = labels[main.li].name]
            /\ progress_file' = OpenForWrite(progress_file)
            /\ main' = [main EXCEPT !.pc = "w_current"]
    /\ UNCHANGED << unit_vars, account, run, last_save_time, message_cache, shutdown_requested, active_threads,
                    imap_client, fetcher, uploader, message_queue, stop_event, obs >>

\* transfer_label(): message_ids = get_messages_by_label(label_id); an empty
\* list returns; otherwise transfer_label_threaded() registers the transfer
\* and starts both threads. An HttpError of the listing aborts the run.
ListAndStart ==
    /\ main.pc = "list"
    /\ LET l == labels[main.li].id IN
       \/ /\ message_ids(l) = <<>>
          /\ main' = [main EXCEPT !.pc = "count"]
          /\ UNCHANGED << active_threads, fetcher, uploader, obs >>
       \/ /\ message_ids(l) # <<>>
          /\ active_threads' = active_threads \cup {l}
          /\ fetcher' = [fetcher EXCEPT ![l] = [FetcherIdle EXCEPT !.pc = "loop"]]
          /\ uploader' = [uploader EXCEPT ![l] = [UploaderIdle EXCEPT !.pc = "top"]]
          /\ main' = [main EXCEPT !.pc = "monitor"]
          /\ obs' = [obs EXCEPT !.stats =
                        [ObsInit.stats EXCEPT !.before =
                            IF l \in DOMAIN progress.transferred_messages
                            THEN Len(progress.transferred_messages[l]) ELSE 0]]
       \/ /\ main' = [main EXCEPT !.pc = "finally", !.raised = TRUE]
          /\ obs' = [obs EXCEPT !.call_failed = TRUE]
          /\ UNCHANGED << active_threads, fetcher, uploader >>
    /\ UNCHANGED << unit_vars, account, run, progress_file, progress, last_save_time, message_cache, shutdown_requested,
                    imap_client, message_queue, stop_event >>

\* transfer_label_threaded(): the monitor loop ends when both threads are dead
\* and the queue is empty, or breaks (setting stop_event) on stop/shutdown
Monitor ==
    /\ main.pc = "monitor"
    /\ LET l == labels[main.li].id IN
       \/ /\ ~FetcherAlive(l) /\ ~UploaderAlive(l) /\ message_queue[l] = <<>>
          /\ UNCHANGED stop_event
       \/ /\ FetcherAlive(l) \/ UploaderAlive(l) \/ message_queue[l] # <<>>
          /\ stop_event[l] \/ shutdown_requested
          /\ stop_event' = [stop_event EXCEPT ![l] = TRUE]
    /\ main' = [main EXCEPT !.pc = "join"]
    /\ UNCHANGED << unit_vars, account, run, progress_file, progress, last_save_time, message_cache, shutdown_requested,
                    active_threads, imap_client, fetcher, uploader, message_queue, obs >>

\* a thread that is inside a call which can last longer than the 10 s of
\* join(timeout=10): the fetcher inside get_messages_batch (network, back-off
\* sleeps of 5 s and more) or inside a put() on a full queue, the uploader
\* inside a transfer call (network, retries, reconnects) or inside
\* get(timeout=30) on an empty queue
FetcherWaits(l) ==
    \/ fetcher[l].pc = "fetching"
    \/ fetcher[l].pc \in {"blocked", "sentinel"} /\ Len(message_queue[l]) >= QueueCap
UploaderWaits(l) ==
    \/ uploader[l].pc \in {"upload", "gmail_get"}
    \/ uploader[l].pc = "get" /\ message_queue[l] = <<>>

\* transfer_label_threaded(): fetcher_thread.join(timeout=10) and
\* uploader_thread.join(timeout=10) return (the thread ended, or the timeout
\* expired with the thread still alive inside a call that lasts), the finally
\* block removes the transfer from active_threads; transfer_label() then
\* calls save_progress_batch(force=True), which opens the file
Join ==
    /\ main.pc = "join"
    /\ LET l == labels[main.li].id IN
       /\ ~FetcherAlive(l) \/ FetcherWaits(l)
       /\ ~UploaderAlive(l) \/ UploaderWaits(l)
       /\ active_threads' = active_threads \ {l}
    /\ progress_file' = OpenForWrite(progress_file)
    /\ last_save_time' = 1
    /\ main' = [main EXCEPT !.pc = "w_final"]
    /\ obs' = [obs EXCEPT !.stats = ObsInit.stats]
    /\ UNCHANGED << unit_vars, account, run, progress, message_cache, shutdown_requested, imap_client,
                    fetcher, uploader, message_queue, stop_event >>

\* run(): progress['completed_labels'] += 1; save_progress() opens the file
CountLabel ==
    /\ main.pc = "count"
    /\ progress' = [progress EXCEPT !.completed_labels = @ + 1]
    /\ progress_file' = OpenForWrite(progress_file)
    /\ main' = [main EXCEPT !.pc = "w_count"]
    /\ UNCHANGED << unit_vars, account, run, last_save_time, message_cache, shutdown_requested, active_threads,
                    imap_client, fetcher, uploader, message_queue, stop_event, obs >>

\* run(): the for loop takes the next label (`late` is history: the signal
\* handler had set shutdown_requested before the loop took this label)
NextLabel ==
    /\ main.pc = "next"
    /\ main' = [main EXCEPT !.pc = "label", !.li = @ + 1, !.late = shutdown_requested]
    /\ UNCHANGED << unit_vars, account, run, progress_file, progress, last_save_time, message_cache, shutdown_requested,
                    active_threads, imap_client, fetcher, uploader, message_queue,
                    stop_event, obs >>

\* IMAPClient.disconnect(): logout if a client object exists
disconnect(client) == IF client = "none" THEN "none" ELSE "logged_out"

\* run(): finally: imap_client.disconnect(); message_cache.clear()
Finally ==
    /\ main.pc = "finally"
    /\ imap_client' = disconnect(imap_client)
    /\ message_cache' = {}
    /\ main' = [main EXCEPT !.pc = "exited"]
    /\ UNCHANGED << unit_vars, account, run, progress_file, progress, last_save_time, shutdown_requested, active_threads,
                    fetcher, uploader, message_queue, stop_event, obs >>

\* _setup_signal_handlers(): signal_handler for SIGINT / SIGTERM. Only the first
\* signal of a run is modelled: once shutdown_requested is set, every check
\* that reads a stop_event set by a later signal already breaks on the flag.
Signal ==
    /\ main.pc # "exited"
    /\ ~shutdown_requested
    /\ shutdown_requested' = TRUE
    /\ stop_event' = [l \in LabelIds |-> stop_event[l] \/ l \in active_threads]
    /\ UNCHANGED << unit_vars, account, run, progress_file, progress, last_save_time, message_cache, active_threads,
                    imap_client, main, fetcher, uploader, message_queue, obs >>


(* --------------------------- fetcher thread --------------------------- *)
\* batch = message_ids[i:i + batch_size] (i is 1-based here)
Batch(l, i) ==
    SubSeq(message_ids(l), i, Min(i + BatchSize - 1, Len(message_ids(l))))

\* gmail_fetcher_thread: the filter that builds messages_to_fetch
messages_to_fetch(p, cache, l, batch) ==
    {m \in Range(batch) : ~is_message_transferred(p, m, l) /\ m \notin cache}

\* faulty variant of FetcherLoop: the loop does not look at stop_event and
\* shutdown_requested (C34 fails with it)
FetcherLoop_deaf(l) ==
    /\ fetcher[l].pc = "loop"
    /\ LET f == fetcher[l]
       IN  IF f.i > Len(message_ids(l))
           THEN fetcher' = [fetcher EXCEPT ![l] = [f EXCEPT !.pc = "sentinel"]]
           ELSE fetcher' = [fetcher EXCEPT ![l] = [f EXCEPT !.pc = "filter"]]
    /\ UNCHANGED << unit_vars, account, run, progress_file, progress, last_save_time, message_cache, shutdown_requested,
                    active_threads, imap_client, main, uploader, message_queue,
                    stop_event, obs >>

\* gmail_fetcher_thread: top of "for i in range(0, len(message_ids), batch_size)":
\* end of the list or stop/shutdown leaves the loop; otherwise the thread
\* goes on to filter the batch
FetcherLoop(l) ==
    /\ fetcher[l].pc = "loop"
    /\ LET f == fetcher[l]
       IN  IF f.i > Len(message_ids(l)) \/ stop_event[l] \/ shutdown_requested
           THEN fetcher' = [fetcher EXCEPT ![l] = [f EXCEPT !.pc = "sentinel"]]
           ELSE fetcher' = [fetcher EXCEPT ![l] = [f EXCEPT !.pc = "filter"]]
    /\ UNCHANGED << unit_vars, account, run, progress_file, progress, last_save_time, message_cache, shutdown_requested,
                    active_threads, imap_client, main, uploader, message_queue,
                    stop_event, obs >>

\* faulty variant of FetcherFilter: a ref that is already transferred is
\* passed over without being counted as skipped (C39 fails with it)
FetcherFilter_uncounted(l) ==
    /\ fetcher[l].pc = "filter"
    /\ LET f == fetcher[l]
           todo == messages_to_fetch(progress, message_cache, l, Batch(l, f.i))
           skipped == Len(SelectSeq(Batch(l, f.i),
                                    LAMBDA m : is_message_transferred(progress, m, l)))
       IN  /\ IF todo # {}
              THEN fetcher' = [fetcher EXCEPT ![l] =
                                  [f EXCEPT !.pc = "fetching", !.to_fetch = todo,
                                            !.late = shutdown_requested]]
              ELSE fetcher' = [fetcher EXCEPT ![l] = [f EXCEPT !.pc = "put", !.j = 1]]
           /\ obs' = obs
    /\ UNCHANGED << unit_vars, account, run, progress_file, progress, last_save_time, message_cache, shutdown_requested,
                    active_threads, imap_client, main, uploader, message_queue,
                    stop_event >>

\* gmail_fetcher_thread: the batch is filtered (a ref that is already
\* transferred counts as skipped) and get_messages_batch is called when
\* something is to be fetched
FetcherFilter(l) ==
    /\ fetcher[l].pc = "filter"
    /\ LET f == fetcher[l]
           todo == messages_to_fetch(progress, message_cache, l, Batch(l, f.i))
           skipped == Len(SelectSeq(Batch(l, f.i),
                                    LAMBDA m : is_message_transferred(progress, m, l)))
       IN  /\ IF todo # {}
              THEN fetcher' = [fetcher EXCEPT ![l] =
                                  [f EXCEPT !.pc = "fetching", !.to_fetch = todo,
                                            !.late = shutdown_requested]]
              ELSE fetcher' = [fetcher EXCEPT ![l] = [f EXCEPT !.pc = "put", !.j = 1]]
           /\ obs' = IF l \in active_threads
                     THEN [obs EXCEPT !.stats.skipped = @ + skipped] ELSE obs
    /\ UNCHANGED << unit_vars, account, run, progress_file, progress, last_save_time, message_cache, shutdown_requested,
                    active_threads, imap_client, main, uploader, message_queue,
                    stop_event >>

\* gmail_client.get_messages_batch(ids) returns a mapping for a subset of the
\* ids (refs that failed are omitted); the fetcher caches each returned
\* message that is not cached yet
FetcherFetchReturn(l) ==
    /\ fetcher[l].pc = "fetching"
    /\ \E got \in SUBSET fetcher[l].to_fetch :
         /\ message_cache' = message_cache \cup got
         /\ fetcher' = [fetcher EXCEPT ![l] =
                           [@ EXCEPT !.pc = "put", !.j = 1, !.to_fetch = {}, !.late = FALSE]]
         /\ obs' = [obs EXCEPT !.call_failed = @ \/ got # fetcher[l].to_fetch,
                               !.fetches = Fetched(@, got)]
    /\ UNCHANGED << unit_vars, account, run, progress_file, progress, last_save_time, shutdown_requested, active_threads,
                    imap_client, main, uploader, message_queue, stop_event >>

\* gmail_fetcher_thread: except Exception: stop_event.set(), then
\* message_queue.put(None)
FetcherFetchRaise(l) ==
    /\ fetcher[l].pc = "fetching"
    /\ fetcher' = [fetcher EXCEPT ![l] =
                      [@ EXCEPT !.pc = "sentinel", !.to_fetch = {}, !.error = TRUE,
                                !.late = FALSE]]
    /\ stop_event' = [stop_event EXCEPT ![l] = TRUE]
    /\ obs' = [obs EXCEPT !.call_failed = TRUE]
    /\ UNCHANGED << unit_vars, account, run, progress_file, progress, last_save_time, message_cache, shutdown_requested,
                    active_threads, imap_client, main, uploader, message_queue >>

\* the fetcher's position after element j of the batch that starts at i
AfterPut(l, f) ==
    IF f.j >= Len(Batch(l, f.i))
    THEN [f EXCEPT !.pc = "loop", !.i = f.i + BatchSize, !.j = 1]
    ELSE [f EXCEPT !.j = f.j + 1]

\* faulty variant of FetcherPut: a ref that get_messages_batch did not return
\* (it is not in the cache) is passed over (C30 fails with it)
FetcherPut_cached(l) ==
    /\ fetcher[l].pc = "put"
    /\ LET f == fetcher[l]
           m == Batch(l, f.i)[f.j]
       IN  IF stop_event[l]
           THEN /\ fetcher' = [fetcher EXCEPT ![l] =
                                  [f EXCEPT !.pc = "loop", !.i = f.i + BatchSize, !.j = 1]]
                /\ UNCHANGED message_queue
           ELSE IF is_message_transferred(progress, m, l) \/ m \notin message_cache
           THEN /\ fetcher' = [fetcher EXCEPT ![l] = AfterPut(l, f)]
                /\ UNCHANGED message_queue
           ELSE IF Len(message_queue[l]) < QueueCap
           THEN /\ message_queue' = [message_queue EXCEPT ![l] = Append(@, m)]
                /\ fetcher' = [fetcher EXCEPT ![l] = AfterPut(l, f)]
           ELSE /\ fetcher' = [fetcher EXCEPT ![l] = [f EXCEPT !.pc = "blocked"]]
                /\ UNCHANGED message_queue
    /\ UNCHANGED << unit_vars, account, run, progress_file, progress, last_save_time, message_cache, shutdown_requested,
                    active_threads, imap_client, main, uploader, stop_event, obs >>

\* gmail_fetcher_thread: "for message_id in batch": break on stop_event, else
\* message_queue.put((message_id, label_id, folder_name)) for a ref that is
\* not transferred; on a full queue the thread waits inside put()
FetcherPut(l) ==
    /\ fetcher[l].pc = "put"
    /\ LET f == fetcher[l]
           m == Batch(l, f.i)[f.j]
       IN  IF stop_event[l]
           THEN /\ fetcher' = [fetcher EXCEPT ![l] =
                                  [f EXCEPT !.pc = "loop", !.i = f.i + BatchSize, !.j = 1]]
                /\ UNCHANGED message_queue
           ELSE IF is_message_transferred(progress, m, l)
           THEN /\ fetcher' = [fetcher EXCEPT ![l] = AfterPut(l, f)]
                /\ UNCHANGED message_queue
           ELSE IF Len(message_queue[l]) < QueueCap
           THEN /\ message_queue' = [message_queue EXCEPT ![l] = Append(@, m)]
                /\ fetcher' = [fetcher EXCEPT ![l] = AfterPut(l, f)]
           ELSE /\ fetcher' = [fetcher EXCEPT ![l] = [f EXCEPT !.pc = "blocked"]]
                /\ UNCHANGED message_queue
    /\ UNCHANGED << unit_vars, account, run, progress_file, progress, last_save_time, message_cache, shutdown_requested,
                    active_threads, imap_client, main, uploader, stop_event, obs >>

\* gmail_fetcher_thread: the put() that waited on a full queue returns once
\* the queue has room (it has no timeout and reads no flag)
FetcherPutReturn(l) ==
    /\ fetcher[l].pc = "blocked"
    /\ Len(message_queue[l]) < QueueCap
    /\ LET f == fetcher[l] IN
       /\ message_queue' = [message_queue EXCEPT ![l] = Append(@, Batch(l, f.i)[f.j])]
       /\ fetcher' = [fetcher EXCEPT ![l] = AfterPut(l, [f EXCEPT !.pc = "put"])]
    /\ UNCHANGED << unit_vars, account, run, progress_file, progress, last_save_time, message_cache, shutdown_requested,
                    active_threads, imap_client, main, uploader, stop_event, obs >>

\* gmail_fetcher_thread: message_queue.put(None), a blocking put, on the
\* normal path and in the exception handler
FetcherSentinel(l) ==
    /\ fetcher[l].pc = "sentinel"
    /\ Len(message_queue[l]) < QueueCap
    /\ message_queue' = [message_queue EXCEPT ![l] = Append(@, Sentinel)]
    /\ fetcher' = [fetcher EXCEPT ![l] = [FetcherIdle EXCEPT !.pc = "done", !.error = fetcher[l].error]]
    /\ UNCHANGED << unit_vars, account, run, progress_file, progress, last_save_time, message_cache, shutdown_requested,
                    active_threads, imap_client, main, uploader, stop_event, obs >>


(* ------------------------------ IMAP Sink ----------------------------- *)
Clients == {"none", "connected", "logged_out"}

\* faulty variant of upload_attempt: the APPEND command goes out whether or not
\* the object holds a logged-in client (C35 fails with it)
upload_attempt_blind(client, attempt, recycle, r1, e_ssl, result, r2) ==
    LET c1 == IF recycle THEN (IF r1 THEN "connected" ELSE "none") ELSE client
        sent == TRUE
        \* _reconnect(): logout() of the old client, then connect()
        reconnect(c, r) ==
            (IF c = "connected" THEN <<"LOGOUT">> ELSE <<>>)
                \o <<IF r THEN "LOGIN" ELSE "LOGIN_FAILED">>
        append == IF ~sent THEN <<>>
                  ELSE IF result = "ok" THEN <<"APPEND_OK">>
                  ELSE IF result = "transport" THEN <<"APPEND_TRANSPORT">>
                  ELSE <<"APPEND_PERMANENT">>
        exc == IF recycle /\ ~r1 THEN (IF e_ssl THEN "ssl" ELSE "other")
               ELSE IF c1 = "none" THEN "other"
               ELSE IF c1 = "logged_out" THEN (IF e_ssl THEN "ssl" ELSE "other")
               ELSE IF result = "ok" THEN "no"
               ELSE IF result = "transport" THEN "ssl" ELSE "other"
        ok == sent /\ result = "ok"
        before == (IF recycle THEN reconnect(client, r1) ELSE <<>>) \o append
    IN  IF exc = "no"
        THEN [client |-> c1, sent |-> sent, ok |-> ok, next |-> "return",
              exc |-> exc, events |-> before]
        ELSE IF exc = "ssl" /\ attempt < UploadRetries - 1
        THEN [client |-> IF r2 THEN "connected" ELSE "none", sent |-> sent, ok |-> ok,
              next |-> "retry", exc |-> exc, events |-> before \o reconnect(c1, r2)]
        ELSE [client |-> c1, sent |-> sent, ok |-> ok,
              next |-> IF attempt = UploadRetries - 1 THEN "raise" ELSE "retry",
              exc |-> exc, events |-> before]

\* IMAPClient.upload_message: one iteration of "for attempt in range(max_retries)".
\*   recycle  _should_recycle_connection() is true (session age is an input)
\*   r1       the _reconnect() of the recycling succeeds
\*   e_ssl    the text of a connect error / of an error on a closed session
\*            contains one of the markers SSL, socket, LOGOUT, connection
\*   result   what the server answers to APPEND: "ok", "transport", "permanent"
\*   r2       the _reconnect() of the except branch succeeds
\* The result gives the client afterwards, whether an APPEND command was sent,
\* whether the server answered it with OK, how the iteration ends ("return",
\* "retry" (next attempt) or "raise"), the exception of the iteration ("no",
\* "ssl" for a text with a marker, "other") and the commands that went over
\* the wire, in order.
upload_attempt(client, attempt, recycle, r1, e_ssl, result, r2) ==
    LET c1 == IF recycle THEN (IF r1 THEN "connected" ELSE "none") ELSE client
        sent == c1 = "connected"
        \* _reconnect(): logout() of the old client, then connect()
        reconnect(c, r) ==
            (IF c = "connected" THEN <<"LOGOUT">> ELSE <<>>)
                \o <<IF r THEN "LOGIN" ELSE "LOGIN_FAILED">>
        append == IF ~sent THEN <<>>
                  ELSE IF result = "ok" THEN <<"APPEND_OK">>
                  ELSE IF result = "transport" THEN <<"APPEND_TRANSPORT">>
                  ELSE <<"APPEND_PERMANENT">>
        exc == IF recycle /\ ~r1 THEN (IF e_ssl THEN "ssl" ELSE "other")
               ELSE IF c1 = "none" THEN "other"
               ELSE IF c1 = "logged_out" THEN (IF e_ssl THEN "ssl" ELSE "other")
               ELSE IF result = "ok" THEN "no"
               ELSE IF result = "transport" THEN "ssl" ELSE "other"
        ok == sent /\ result = "ok"
        before == (IF recycle THEN reconnect(client, r1) ELSE <<>>) \o append
    IN  IF exc = "no"
        THEN [client |-> c1, sent |-> sent, ok |-> ok, next |-> "return",
              exc |-> exc, events |-> before]
        ELSE IF exc = "ssl" /\ attempt < UploadRetries - 1
        THEN [client |-> IF r2 THEN "connected" ELSE "none", sent |-> sent, ok |-> ok,
              next |-> "retry", exc |-> exc, events |-> before \o reconnect(c1, r2)]
        ELSE [client |-> c1, sent |-> sent, ok |-> ok,
              next |-> IF attempt = UploadRetries - 1 THEN "raise" ELSE "retry",
              exc |-> exc, events |-> before]

\* the distinct outcomes of one iteration, over all inputs
AttemptOutcomes(client, attempt) ==
    { upload_attempt(client, attempt, x[1], x[2], x[3], x[5], x[4]) :
        x \in BOOLEAN \X BOOLEAN \X BOOLEAN \X BOOLEAN \X {"ok", "transport", "permanent"} }

\* IMAPClient.upload_message: the loop over the attempts, from `attempt` on.
\* Every possible result of the call: the client afterwards, whether an
\* APPEND command was sent, whether one was answered with OK, whether the
\* call returned (else it raised), whether an iteration took the except
\* branch, and the number of APPEND commands sent.
RECURSIVE upload_message_from(_, _)
upload_message_from(client, attempt) ==
    UNION { IF a.next = "retry"
            THEN { [r EXCEPT !.sent = @ \/ a.sent, !.ok = @ \/ a.ok, !.trouble = TRUE,
                             !.appends = @ + (IF a.sent THEN 1 ELSE 0)] :
                     r \in upload_message_from(a.client, attempt + 1) }
            ELSE { [client |-> a.client, sent |-> a.sent, ok |-> a.ok,
                    returned |-> a.next = "return", trouble |-> a.next # "return",
                    appends |-> IF a.sent THEN 1 ELSE 0] } :
            a \in AttemptOutcomes(client, attempt) }

upload_message == [client \in Clients |-> upload_message_from(client, 0)]

(* ------------------ the IMAP Sink with its counters ------------------- *)
\* an IMAPClient object some time after its construction: it has a session,
\* has lost it, or has been disconnected; it is new, or one upload or one
\* error away from a recycling, or due for one
ImapStates ==
    [ client : Clients,
      total_uploads : {0, MaxUploadsPerConnection - 1, MaxUploadsPerConnection},
      connection_errors : {0, MaxConnectionErrors - 1, MaxConnectionErrors} ]

\* faulty variant of should_recycle_connection: the upload count is compared
\* with > (C17 fails with it)
should_recycle_connection_late(s, aged) ==
    \/ aged
    \/ s.total_uploads > MaxUploadsPerConnection
    \/ s.connection_errors >= MaxConnectionErrors

\* IMAPClient._should_recycle_connection(); `aged` says that the session is
\* older than max_connection_duration (connection_start_time is always set,
\* connect() sets it first)
should_recycle_connection(s, aged) ==
    \/ aged
    \/ s.total_uploads >= MaxUploadsPerConnection
    \/ s.connection_errors >= MaxConnectionErrors

\* faulty variant of sink_attempt: the _reconnect() of the except branch
\* leaves the counters as they are (C31 fails with it)
sink_attempt_keep(s, attempt) ==
    { LET aged == x[1][1]
          recycle == should_recycle_connection(s, aged)
          a == upload_attempt(s.client, attempt, recycle, x[1][2], x[2][1], x[3], x[2][2])
          t0 == IF recycle THEN 0 ELSE s.total_uploads
          e0 == IF recycle THEN 0 ELSE s.connection_errors
      IN  [ imap |-> [ client |-> a.client,
                       total_uploads |-> IF a.ok THEN t0 + 1 ELSE t0,
                       connection_errors |-> IF a.exc # "no" THEN e0 + 1 ELSE e0 ],
            events |-> a.events,
            next |-> a.next,
            clean |-> ~aged /\ a.exc = "no" ] :
      x \in (BOOLEAN \X BOOLEAN) \X (BOOLEAN \X BOOLEAN) \X {"ok", "transport", "permanent"} }

\* IMAPClient.upload_message: one iteration, with the counters of the object.
\* _reconnect() resets both counters (also when its connect() fails), a
\* successful append counts an upload, the except branch counts an error.
\* The distinct outcomes over all inputs: the object afterwards, the
\* commands on the wire, how the iteration ends, and whether it met neither
\* an exception nor an aged session.
sink_attempt(s, attempt) ==
    { LET aged == x[1][1]
          recycle == should_recycle_connection(s, aged)
          a == upload_attempt(s.client, attempt, recycle, x[1][2], x[2][1], x[3], x[2][2])
          again == a.exc = "ssl" /\ attempt < UploadRetries - 1
          t0 == IF recycle THEN 0 ELSE s.total_uploads
          e0 == IF recycle THEN 0 ELSE s.connection_errors
      IN  [ imap |-> [ client |-> a.client,
                       total_uploads |-> IF again THEN 0
                                         ELSE IF a.ok THEN t0 + 1 ELSE t0,
                       connection_errors |-> IF again THEN 0
                                             ELSE IF a.exc # "no" THEN e0 + 1 ELSE e0 ],
            events |-> a.events,
            next |-> a.next,
            clean |-> ~aged /\ a.exc = "no" ] :
      x \in (BOOLEAN \X BOOLEAN) \X (BOOLEAN \X BOOLEAN) \X {"ok", "transport", "permanent"} }

\* faulty variant of upload_call: the exception of the last attempt is not
\* raised, the call returns (C29 fails with it)
RECURSIVE upload_call_quiet(_, _)
upload_call_quiet(s, attempt) ==
    UNION { IF a.next = "retry"
            THEN { [r EXCEPT !.events = a.events \o @, !.clean = FALSE,
                             !.attempts = << [events |-> a.events, imap |-> a.imap] >> \o @] :
                     r \in upload_call_quiet(a.imap, attempt + 1) }
            ELSE { [imap |-> a.imap, events |-> a.events,
                    returned |-> TRUE, clean |-> a.clean,
                    attempts |-> << [events |-> a.events, imap |-> a.imap] >>] } :
            a \in sink_attempt(s, attempt) }

\* IMAPClient.upload_message: the whole call, from `attempt` on
RECURSIVE upload_call(_, _)
upload_call(s, attempt) ==
    UNION { IF a.next = "retry"
            THEN { [r EXCEPT !.events = a.events \o @, !.clean = FALSE,
                             !.attempts = << [events |-> a.events, imap |-> a.imap] >> \o @] :
                     r \in upload_call(a.imap, attempt + 1) }
            ELSE { [imap |-> a.imap, events |-> a.events,
                    returned |-> a.next = "return", clean |-> a.clean,
                    attempts |-> << [events |-> a.events, imap |-> a.imap] >>] } :
            a \in sink_attempt(s, attempt) }

\* the LOGOUT commands among the commands of a call
RECURSIVE Logouts(_)
Logouts(events) ==
    IF events = <<>> THEN 0
    ELSE (IF Head(events) = "LOGOUT" THEN 1 ELSE 0) + Logouts(Tail(events))

\* upload_message is called on the object. Calls follow one another as long
\* as the history is clean (up to MaxAppends of them); the first call that
\* meets an error or an aged session, and the only call on an object that is
\* not new, is the last one examined.
SinkUpload ==
    /\ ~wire.called \/ (wire.clean /\ wire.appends < MaxAppends)
    /\ \E r \in upload_call(imap, 0) :
         /\ imap' = r.imap
         /\ wire' = IF wire.clean /\ r.clean
                    THEN [clean |-> TRUE, appends |-> wire.appends + 1,
                          logouts |-> wire.logouts + Logouts(r.events),
                          last |-> r.events, returned |-> r.returned, called |-> TRUE,
                          before |-> imap, attempts |-> r.attempts]
                    ELSE [clean |-> FALSE, appends |-> 0, logouts |-> 0,
                          last |-> r.events, returned |-> r.returned, called |-> TRUE,
                          before |-> imap, attempts |-> r.attempts]
    /\ UNCHANGED << engine_vars, item_call, batch_call, source, saver, folders, mapper, flag_call, counters, store >>

(* ------------------- transfer of one message (engine) ----------------- *)
\* The result of a transfer call:
\*   returned  the call returned (else the exception left the retry wrapper)
\*   marked    mark_message_completed was called
\*   insert    transfer_message put the message into the cache
\*   cleanup   _cleanup_message_from_cache was called
\*   client    the IMAP client afterwards
\*   sent      an APPEND command was sent
\*   ok        an APPEND command was answered with OK
\*   gfail     a gmail_client.get_message call raised
\*   afail     an iteration of upload_message took its except branch
\*   appends   the number of APPEND commands sent

\* transfer_message under safe_transfer, from attempt ia on; `cached` says
\* whether the message is in the cache when the attempt starts
RECURSIVE transfer_message_from(_, _, _)
transfer_message_from(cached, client, ia) ==
    LET last == ia = SafeTransferRetries - 1
        \* the attempt uploads (cache hit, or get_message returned)
        uploads(ins) ==
            UNION { IF u.returned
                    THEN { [returned |-> TRUE, marked |-> TRUE, insert |-> ins,
                            cleanup |-> FALSE, client |-> u.client, sent |-> u.sent,
                            ok |-> u.ok, gfail |-> FALSE, afail |-> u.trouble,
                            appends |-> u.appends] }
                    ELSE IF last
                    THEN { [returned |-> FALSE, marked |-> FALSE, insert |-> ins,
                            cleanup |-> FALSE, client |-> u.client, sent |-> u.sent,
                            ok |-> u.ok, gfail |-> FALSE, afail |-> TRUE,
                            appends |-> u.appends] }
                    ELSE { [r EXCEPT !.insert = @ \/ ins, !.sent = @ \/ u.sent,
                                     !.ok = @ \/ u.ok, !.afail = TRUE,
                                     !.appends = @ + u.appends] :
                             r \in transfer_message_from(TRUE, u.client, ia + 1) } :
                    u \in upload_message[client] }
        \* get_message raised
        getfails ==
            IF last
            THEN { [returned |-> FALSE, marked |-> FALSE, insert |-> FALSE,
                    cleanup |-> FALSE, client |-> client, sent |-> FALSE,
                    ok |-> FALSE, gfail |-> TRUE, afail |-> FALSE, appends |-> 0] }
            ELSE { [r EXCEPT !.gfail = TRUE] :
                     r \in transfer_message_from(FALSE, client, ia + 1) }
    IN  IF cached THEN uploads(FALSE) ELSE uploads(TRUE) \cup getfails

\* transfer_message_from_cache under safe_transfer, from attempt oa on
RECURSIVE transfer_message_from_cache_from(_, _, _)
transfer_message_from_cache_from(cached, client, oa) ==
    LET last == oa = SafeTransferRetries - 1
        \* what one attempt does: upload from the cache and evict, or fall
        \* back to transfer_message
        attempt ==
            IF cached
            THEN { [returned |-> u.returned, marked |-> u.returned, insert |-> FALSE,
                    cleanup |-> u.returned, client |-> u.client, sent |-> u.sent,
                    ok |-> u.ok, gfail |-> FALSE, afail |-> u.trouble,
                    appends |-> u.appends] :
                   u \in upload_message[client] }
            ELSE transfer_message_from(FALSE, client, 0)
    IN  UNION { IF a.returned \/ last THEN {a}
                ELSE { [r EXCEPT !.insert = @ \/ a.insert, !.sent = @ \/ a.sent,
                                 !.ok = @ \/ a.ok,
                                 !.gfail = @ \/ a.gfail, !.afail = @ \/ a.afail,
                                 !.appends = @ + a.appends] :
                         r \in transfer_message_from_cache_from(cached \/ a.insert,
                                                                a.client, oa + 1) } :
                a \in attempt }

\* transfer_message_from_cache(message_id, ...) as the uploader calls it:
\* the results as far as the state of the program depends on them (the number
\* of APPEND commands is left out)
transfer_message_from_cache ==
    [cached \in BOOLEAN |-> [client \in Clients |->
        { [returned |-> r.returned, marked |-> r.marked, insert |-> r.insert,
           cleanup |-> r.cleanup, client |-> r.client, sent |-> r.sent, ok |-> r.ok,
           gfail |-> r.gfail, afail |-> r.afail] :
          r \in transfer_message_from_cache_from(cached, client, 0) }]]

(* --------------------------- uploader thread -------------------------- *)
\* imap_uploader_thread: top of "while True": stop/shutdown ends the thread,
\* otherwise the thread goes on to message_queue.get(timeout=30)
UploaderTop(l) ==
    /\ uploader[l].pc = "top"
    /\ uploader' = [uploader EXCEPT ![l] =
                       IF stop_event[l] \/ shutdown_requested
                       THEN UploaderDone ELSE [@ EXCEPT !.pc = "get"]]
    /\ UNCHANGED << unit_vars, account, run, progress_file, progress, last_save_time, message_cache, shutdown_requested,
                    active_threads, imap_client, main, fetcher, message_queue,
                    stop_event, obs >>

\* imap_uploader_thread: message_queue.get returns an item: the sentinel ends
\* the thread, a ref that is already transferred is dropped, for any other
\* ref transfer_message_from_cache is called: it looks the ref up in the
\* cache and starts the upload, or the single fetch of the fallback
UploaderGet(l) ==
    /\ uploader[l].pc = "get"
    /\ message_queue[l] # <<>>
    /\ LET item == Head(message_queue[l]) IN
       /\ message_queue' = [message_queue EXCEPT ![l] = Tail(@)]
       /\ uploader' = [uploader EXCEPT ![l] =
            IF item = Sentinel THEN UploaderDone
            ELSE IF is_message_transferred(progress, item, l) THEN [@ EXCEPT !.pc = "top"]
            ELSE [@ EXCEPT !.pc = IF item \in message_cache THEN "upload" ELSE "gmail_get",
                           !.item = item, !.late = shutdown_requested]]
    /\ UNCHANGED << unit_vars, account, run, progress_file, progress, last_save_time, message_cache, shutdown_requested,
                    active_threads, imap_client, main, fetcher, stop_event, obs >>

\* imap_uploader_thread: except queue.Empty (the get timed out on an empty
\* queue): break if stop_event is set, else continue
UploaderTimeout(l) ==
    /\ uploader[l].pc = "get"
    /\ message_queue[l] = <<>>
    /\ uploader' = [uploader EXCEPT ![l] =
                       IF stop_event[l] THEN UploaderDone ELSE [@ EXCEPT !.pc = "top"]]
    /\ UNCHANGED << unit_vars, account, run, progress_file, progress, last_save_time, message_cache, shutdown_requested,
                    active_threads, imap_client, main, fetcher, message_queue,
                    stop_event, obs >>

\* the cache after a transfer call
CacheAfterTransfer(cache, r, message_id) ==
    IF r.cleanup THEN cache \ {message_id}
    ELSE IF r.insert THEN cache \cup {message_id}
    ELSE cache

\* faulty variant of ProgressAfterTransfer: the ref is marked whether or not
\* the call returned (C3 fails with it)
ProgressAfterTransfer_always(p, r, message_id, label) ==
    mark_message_completed(p, message_id, label)

\* the record after a transfer call
ProgressAfterTransfer(p, r, message_id, label) ==
    IF r.marked THEN mark_message_completed(p, message_id, label) ELSE p

\* imap_uploader_thread: the call transfer_message_from_cache(...) ends and
\* the rest of the loop body runs: on return messages_processed is counted
\* and, every progress_save_interval uploads, save_progress_batch() is called
\* (it opens the file when 30 s have passed since _last_save_time, which is
\* always so while _last_save_time is 0); on an exception the error is counted
UploaderTransfer(l) ==
    /\ uploader[l].pc \in {"upload", "gmail_get"}
    /\ \E r \in transfer_message_from_cache[uploader[l].pc = "upload"][imap_client],
          due \in (IF last_save_time = 0 THEN {TRUE} ELSE BOOLEAN) :
       LET u == uploader[l]
           n == u.messages_processed + 1
           save == r.returned /\ n % SaveInterval = 0 /\ due
       IN  /\ imap_client' = r.client
           /\ progress' = ProgressAfterTransfer(progress, r, u.item, l)
           /\ message_cache' = CacheAfterTransfer(message_cache, r, u.item)
           /\ progress_file' = IF save THEN OpenForWrite(progress_file) ELSE progress_file
           /\ last_save_time' = IF save THEN 1 ELSE last_save_time
           /\ uploader' = [uploader EXCEPT ![l] =
                IF r.returned
                THEN [u EXCEPT !.pc = IF save THEN "saving" ELSE "top",
                               !.item = "", !.messages_processed = n, !.late = FALSE]
                ELSE [u EXCEPT !.pc = "top", !.item = "", !.late = FALSE]]
           /\ obs' = [obs EXCEPT
                !.issued = IF r.sent THEN @ \cup {<<l, u.item>>} ELSE @,
                !.succeeded = IF r.ok THEN @ \cup {<<l, u.item>>} ELSE @,
                !.append_failed = @ \/ r.afail,
                !.call_failed = @ \/ r.gfail,
                !.fetches = IF r.insert THEN Fetched(@, {u.item}) ELSE @,
                !.failed = IF ~r.returned /\ r.sent THEN @ \cup {<<l, u.item>>} ELSE @,
                !.stats.uploaded = IF r.returned /\ l \in active_threads THEN @ + 1 ELSE @,
                !.stats.errors = IF ~r.returned /\ l \in active_threads THEN @ + 1 ELSE @]
    /\ UNCHANGED << unit_vars, account, run, shutdown_requested, active_threads, main, fetcher,
                    message_queue, stop_event >>

\* save_progress() of the uploader's save_progress_batch(): json.dump completes
UploaderDump(l) ==
    /\ uploader[l].pc = "saving"
    /\ progress_file' = Dumped(progress)
    /\ uploader' = [uploader EXCEPT ![l] = [@ EXCEPT !.pc = "top"]]
    /\ UNCHANGED << unit_vars, account, run, progress, last_save_time, message_cache, shutdown_requested, active_threads,
                    imap_client, main, fetcher, message_queue, stop_event, obs >>

(* ----------------------- the process and its runs --------------------- *)
\* what the observer carries over when a run ends: after an exit the facts
\* of the run that ended, after a kill nothing but the kill
NextObs(killed) ==
    IF killed
    THEN [ObsInit EXCEPT !.loaded = load_progress(progress_file), !.prev = "killed"]
    ELSE [ObsInit EXCEPT !.loaded = load_progress(progress_file),
                         !.prev = "exited",
                         !.prev_clean = ~obs.append_failed /\ ~shutdown_requested,
                         !.prev_retry =
                             {q \in obs.failed \ obs.succeeded :
                                \E q2 \in obs.succeeded : q2[1] = q[1] /\ q2[2] # q[2]},
                         !.prev_uploaded = obs.succeeded]

\* the process is killed at an arbitrary point (its memory is lost, the file
\* stays as it is) and the program is started again
Kill ==
    /\ run < MaxRuns
    /\ main.pc # "exited" \/ ThreadsAlive
    /\ run' = run + 1
    /\ Construct(progress_file)
    /\ obs' = NextObs(TRUE)
    /\ UNCHANGED << unit_vars, account, progress_file >>

\* the process has exited (run() returned and no thread is left) and the
\* program is started again
Rerun ==
    /\ run < MaxRuns
    /\ main.pc = "exited" /\ ~ThreadsAlive
    /\ run' = run + 1
    /\ Construct(progress_file)
    /\ obs' = NextObs(FALSE)
    /\ UNCHANGED << unit_vars, account, progress_file >>

FetcherStep(l) ==
    \/ FetcherLoop(l)
    \/ FetcherFilter(l)
    \/ FetcherFetchReturn(l)
    \/ FetcherFetchRaise(l)
    \/ FetcherPut(l)
    \/ FetcherPutReturn(l)
    \/ FetcherSentinel(l)

UploaderStep(l) ==
    \/ UploaderTop(l)
    \/ UploaderGet(l)
    \/ UploaderTimeout(l)
    \/ UploaderTransfer(l)
    \/ UploaderDump(l)

MainStep ==
    \/ Setup
    \/ MainDump
    \/ SetTotal
    \/ TransferLabel
    \/ ListAndStart
    \/ Monitor
    \/ Join
    \/ CountLabel
    \/ NextLabel
    \/ Finally

\* one run of the program: its threads and the signals it receives
NextRun ==
    \/ MainStep
    \/ \E l \in LabelIds : FetcherStep(l)
    \/ \E l \in LabelIds : UploaderStep(l)
    \/ Signal

\* consecutive runs against one progress file
Next ==
    \/ NextRun
    \/ Kill
    \/ Rerun

Spec == Init /\ [][Next]_vars

\* One run in which every thread that can take a step eventually takes one
\* (the scheduler starves no runnable thread; a thread blocked in put()
\* or get() is not runnable). Signals may or may not arrive.
FairSpec ==
    /\ Init
    /\ [][NextRun]_vars
    /\ WF_vars(MainStep)
    /\ \A l \in LabelIds : WF_vars(FetcherStep(l)) /\ WF_vars(UploaderStep(l))

(* ------------------- GmailClient.get_messages_batch ------------------- *)
\* the lists of refs that are requested: no ref twice
RequestLists ==
    UNION { {q \in [1..n -> MsgIds] : \A x, y \in 1..n : x # y => q[x] # q[y]} :
            n \in 0..MaxRequest }

\* batch_ids = message_ids[i:i + max_batch_size]
Chunk(ids, i) == SubSeq(ids, i, Min(i + MaxBatchSize - 1, Len(ids)))

\* the outer for loop takes the next chunk, or the function returns
NextChunk(b) ==
    IF b.i + MaxBatchSize > Len(b.message_ids)
    THEN [b EXCEPT !.pc = "returned", !.batch_ids = <<>>, !.attempt = 0, !.k = 1,
                   !.individual_attempt = 0]
    ELSE [b EXCEPT !.pc = "execute", !.i = b.i + MaxBatchSize,
                   !.batch_ids = Chunk(b.message_ids, b.i + MaxBatchSize),
                   !.attempt = 0, !.k = 1, !.individual_attempt = 0]

\* the fallback loop goes on from position k: refs that are already in
\* all_messages are skipped; after the last ref the chunk is done
RECURSIVE NextSingle(_, _)
NextSingle(b, k) ==
    IF k > Len(b.batch_ids) THEN NextChunk(b)
    ELSE IF b.batch_ids[k] \in b.all_messages THEN NextSingle(b, k + 1)
    ELSE [b EXCEPT !.pc = "single", !.k = k, !.individual_attempt = 0]

\* faulty variant of retry_batch: rate-limited requests are not retried
\* (C19 fails with it)
retry_batch_never(rate_limited_count, attempt) == FALSE

\* faulty variant of retry_batch: missing refs are asked for again without
\* a limit on the attempts (C40 fails with it)
retry_batch_always(rate_limited_count, attempt) == rate_limited_count > 0

\* "if rate_limited_count > 0 and attempt < max_retries - 1"
retry_batch(rate_limited_count, attempt) ==
    rate_limited_count > 0 /\ attempt < BatchRetries - 1

\* get_messages_batch(message_ids) is entered: an empty list returns {}
BatchStart ==
    /\ batch_call.pc = "call"
    /\ batch_call' =
         IF batch_call.message_ids = <<>>
         THEN [batch_call EXCEPT !.pc = "returned"]
         ELSE [batch_call EXCEPT !.pc = "execute", !.i = 1,
                                 !.batch_ids = Chunk(batch_call.message_ids, 1),
                                 !.attempt = 0]
    /\ UNCHANGED << engine_vars, item_call, imap, wire, source, saver, folders, mapper, flag_call, counters, store >>

\* batch.execute() returns: the callback got, for each ref of batch_ids, the
\* message ("ok"), a 429 or another error. Refs that are still missing are
\* asked for again while attempts are left; otherwise the chunk is done.
BatchExecuteReturns ==
    /\ batch_call.pc = "execute"
    /\ LET b == batch_call
           ids == Range(b.batch_ids)
       IN  \E answer \in [ids -> {"ok", "429", "error"}] :
             LET all == b.all_messages \cup {m \in ids : answer[m] = "ok"}
                 rate_limited_ids == SelectSeq(b.batch_ids, LAMBDA m : m \notin all)
                 rate_limited_count ==
                     Len(b.batch_ids) - Cardinality({m \in all : m \in ids})
                 got429 == {m \in ids : answer[m] = "429"}
                 limited == IF b.attempt = 0 THEN got429 ELSE source.limited \cap got429
                 again == retry_batch(rate_limited_count, b.attempt)
             IN  /\ batch_call' =
                      IF again
                      THEN [b EXCEPT !.all_messages = all, !.batch_ids = rate_limited_ids,
                                     !.attempt = b.attempt + 1]
                      ELSE NextChunk([b EXCEPT !.all_messages = all])
                 /\ source' = [source EXCEPT
                      !.as_p5 = @ /\ \A m \in ids :
                                   answer[m] = "ok" \/ (answer[m] = "429" /\ b.attempt = 0),
                      !.limited_chunks = IF b.attempt = 0 /\ got429 # {} THEN @ + 1 ELSE @,
                      !.limited = IF again THEN limited ELSE {},
                      !.starved = IF ~again /\ b.attempt = BatchRetries - 1
                                  THEN @ \cup limited ELSE @,
                      !.failed = IF again THEN {m \in ids : answer[m] = "error"} ELSE {}]
    /\ UNCHANGED << engine_vars, item_call, imap, wire, saver, folders, mapper, flag_call, counters, store >>

\* batch.execute() raises HttpError: a 429 is retried while attempts are
\* left; otherwise the refs of batch_ids are fetched one by one
BatchExecuteHttpError ==
    /\ batch_call.pc = "execute"
    /\ LET b == batch_call IN
       \E status \in {"429", "error"} :
         LET again == status = "429" /\ b.attempt < BatchRetries - 1
             limited == IF status # "429" THEN {}
                        ELSE IF b.attempt = 0 THEN Range(b.batch_ids)
                        ELSE source.limited
         IN  /\ batch_call' = IF again THEN [b EXCEPT !.attempt = b.attempt + 1]
                               ELSE NextSingle(b, 1)
             /\ source' = [source EXCEPT
                  !.as_p5 = @ /\ status = "429" /\ b.attempt = 0,
                  !.limited_chunks = IF b.attempt = 0 /\ status = "429" THEN @ + 1 ELSE @,
                  !.limited = IF again THEN limited ELSE {},
                  !.starved = IF ~again /\ b.attempt = BatchRetries - 1
                              THEN @ \cup limited ELSE @,
                  !.tries = 0,
                  !.failed = {}]
    /\ UNCHANGED << engine_vars, item_call, imap, wire, saver, folders, mapper, flag_call, counters, store >>

\* batch.execute() raises something else than HttpError: nothing in
\* get_messages_batch catches it
BatchExecuteRaises ==
    /\ batch_call.pc = "execute"
    /\ batch_call' = [batch_call EXCEPT !.pc = "raised"]
    /\ source' = [source EXCEPT !.as_p5 = FALSE, !.limited = {}, !.failed = {}]
    /\ UNCHANGED << engine_vars, item_call, imap, wire, saver, folders, mapper, flag_call, counters, store >>

\* the fallback calls get_message(msg_id): the message is stored; a 429 is
\* retried while individual attempts are left; any other HttpError, or a 429
\* on the last attempt, gives the ref up; another exception leaves the
\* function
BatchSingle ==
    /\ batch_call.pc = "single"
    /\ LET b == batch_call
           msg_id == b.batch_ids[b.k]
       IN  \E answer \in {"ok", "429", "error", "raise"} :
             /\ batch_call' =
                  IF answer = "ok"
                  THEN NextSingle([b EXCEPT !.all_messages = @ \cup {msg_id}], b.k + 1)
                  ELSE IF answer = "raise"
                  THEN [b EXCEPT !.pc = "raised"]
                  ELSE IF answer = "429" /\ b.individual_attempt < IndividualRetries - 1
                  THEN [b EXCEPT !.individual_attempt = @ + 1]
                  ELSE NextSingle(b, b.k + 1)
             /\ source' = [source EXCEPT
                  !.as_p5 = @ /\ answer = "ok",
                  !.singles = @ \cup {msg_id},
                  !.tries = IF b.individual_attempt = 0 THEN 1 ELSE @ + 1]
    /\ UNCHANGED << engine_vars, item_call, imap, wire, saver, folders, mapper, flag_call, counters, store >>

\* One call of get_messages_batch, for every list of refs and every way the
\* source can answer.
BatchInit ==
    /\ account = "one"
    /\ EngineInit
    /\ imap = ImapNew
    /\ wire = WireInit
    /\ \E ids \in RequestLists :
         batch_call = [BatchIdle EXCEPT !.pc = "call", !.message_ids = ids]
    /\ source = SourceInit
    /\ saver = SaverIdle
    /\ PartsIdle

BatchNext ==
    \/ BatchStart
    \/ BatchExecuteReturns
    \/ BatchExecuteHttpError
    \/ BatchExecuteRaises
    \/ BatchSingle

BatchSpec == BatchInit /\ [][BatchNext]_vars

\* the call is not suspended for ever: every HTTP call it makes returns or
\* raises, and the thread that runs it is scheduled
BatchFairSpec == BatchInit /\ [][BatchNext]_vars /\ WF_vars(BatchNext)

(* ---------------- the uploader's periodic save, with a clock ----------- *)
\* ProgressManager.save_progress_batch(force): the save is made when forced
\* or when SaveSeconds have passed since _last_save_time; what was marked
\* and not yet written (unsaved) is then on the file
save_progress_batch(s, force) ==
    LET call == [called |-> TRUE, force |-> force, wrote |-> FALSE,
                 since |-> s.now - s.last_write]
    IN  IF force \/ s.now - s.last_save_time >= SaveSeconds
        THEN [s EXCEPT !.unsaved = <<>>, !.last_save_time = s.now, !.last_write = s.now,
                       !.flush = [call EXCEPT !.wrote = TRUE]]
        ELSE [s EXCEPT !.flush = call]

\* time passes (the uploader waits for the fetcher, or an upload is slow)
SaverTick ==
    /\ saver.now < MaxClock
    /\ saver' = [saver EXCEPT !.now = @ + TickSeconds]
    /\ UNCHANGED << engine_vars, item_call, imap, wire, batch_call, source, folders, mapper, flag_call, counters, store >>

\* imap_uploader_thread: a transfer call returns (the ref is marked, at time
\* now), messages_processed is counted and, every progress_save_interval
\* uploads, save_progress_batch() is called
SaverUpload ==
    /\ saver.messages_processed < MaxSaverUploads
    /\ LET n == saver.messages_processed + 1
           marked == [saver EXCEPT !.messages_processed = n,
                                   !.unsaved = Append(@, saver.now)]
       IN  saver' = IF n % SaveInterval = 0
                    THEN save_progress_batch(marked, FALSE) ELSE marked
    /\ UNCHANGED << engine_vars, item_call, imap, wire, batch_call, source, folders, mapper, flag_call, counters, store >>

\* transfer_label: the pipeline has ended, save_progress_batch(force=True);
\* run() counts the label and transfer_label() of the next label sets
\* current_label, each followed by a direct save_progress(), which writes the
\* file and leaves _last_save_time alone; the next pipeline starts
SaverNextLabel ==
    /\ saver.messages_processed > 0
    /\ saver' = [save_progress_batch(saver, TRUE) EXCEPT !.messages_processed = 0,
                                                         !.last_write = saver.now]
    /\ UNCHANGED << engine_vars, item_call, imap, wire, batch_call, source, folders, mapper, flag_call, counters, store >>

\* The uploader of one pipeline against the clock. _last_save_time is 0 in
\* the first pipeline of a run (the attribute is created with 0) and the time
\* of the forced save that ended the previous pipeline in a later one. The
\* file was written last by the direct save_progress() of transfer_label(),
\* just before the pipeline started.
SaverInit ==
    /\ account = "one"
    /\ EngineInit
    /\ imap = ImapNew
    /\ wire = WireInit
    /\ batch_call = BatchIdle
    /\ source = SourceInit
    /\ \E t \in {0, StartClock} :
         saver = [SaverIdle EXCEPT !.now = StartClock, !.last_save_time = t,
                                   !.last_write = StartClock]
    /\ PartsIdle

SaverNext ==
    \/ SaverTick
    \/ SaverUpload
    \/ SaverNextLabel

SaverSpec == SaverInit /\ [][SaverNext]_vars

\* An IMAPClient object on its own: upload_message is called on it again and
\* again, the server and the network answer as they like.
SinkInit ==
    /\ account = "one"
    /\ EngineInit
    /\ imap \in ImapStates
    /\ wire = [WireInit EXCEPT !.clean = (imap = ImapNew)]
    /\ batch_call = BatchIdle
    /\ source = SourceInit
    /\ saver = SaverIdle
    /\ PartsIdle

SinkNext == SinkUpload

SinkSpec == SinkInit /\ [][SinkNext]_vars

(* --------------------------- folder names ----------------------------- *)
\* Names are sequences of characters.
INBOX == << "I", "N", "B", "O", "X" >>
InboxDot == << "I", "N", "B", "O", "X", "." >>

\* the folder names the clients are called with:
\* INBOX, inbox, Work, INBOX.Work, Mail/Work, INBOX.
FolderNames ==
    { INBOX, << "i", "n", "b", "o", "x" >>, << "W", "o", "r", "k" >>,
      InboxDot \o << "W", "o", "r", "k" >>,
      << "M", "a", "i", "l", "/", "W", "o", "r", "k" >>, InboxDot }

\* the personal-namespace prefixes a server may announce (None reads as ""):
\* none, INBOX. and Mail/
Prefixes == { <<>>, InboxDot, << "M", "a", "i", "l", "/" >> }

\* what a server says at connect: whether CAPABILITY lists NAMESPACE, whether
\* the NAMESPACE command fails, and the personal namespaces it returns
NamespaceAnswers ==
    { [capability |-> FALSE, raises |-> FALSE, personal |-> <<>>],
      [capability |-> TRUE, raises |-> TRUE, personal |-> <<>>],
      [capability |-> TRUE, raises |-> FALSE, personal |-> <<>>] }
    \cup { [capability |-> TRUE, raises |-> FALSE, personal |-> << << p, "/" >> >>] :
             p \in Prefixes }

\* str.upper(), on the letters that occur in the names
upper(s) ==
    LET UpperChar(c) ==
          CASE c = "i" -> "I" [] c = "n" -> "N" [] c = "b" -> "B" [] c = "o" -> "O"
            [] c = "x" -> "X" [] c = "r" -> "R" [] c = "k" -> "K" [] c = "a" -> "A"
            [] c = "l" -> "L" [] OTHER -> c
    IN [k \in 1..Len(s) |-> UpperChar(s[k])]

\* str.startswith()
startswith(s, p) == Len(p) <= Len(s) /\ SubSeq(s, 1, Len(p)) = p

\* connect(): the namespace prefix it leaves in namespace_prefix
connect(answer) ==
    IF ~answer.capability THEN InboxDot
    ELSE IF answer.raises THEN InboxDot
    ELSE IF answer.personal # <<>>
         THEN LET personal_ns == answer.personal[1]
              IN IF personal_ns[1] # <<>> THEN personal_ns[1] ELSE <<>>
         ELSE <<>>

\* _get_full_folder_name(folder_name); an empty namespace_prefix is false
get_full_folder_name(namespace_prefix, folder_name) ==
    IF upper(folder_name) = INBOX THEN INBOX
    ELSE IF namespace_prefix # <<>>
         THEN IF startswith(folder_name, namespace_prefix) THEN folder_name
              ELSE namespace_prefix \o folder_name
         ELSE IF startswith(folder_name, InboxDot) THEN folder_name
              ELSE InboxDot \o folder_name

\* the call that is now the previous one
AsPrev(f) == [op |-> f.op, folder_name |-> f.folder_name, commands |-> f.commands,
              returned |-> f.returned, mailboxes |-> f.mailboxes]

\* faulty variant of create_folder: no existence test (C23 fails with it)
create_folder_untested(f, folder_name, created) ==
    LET full_folder_name == get_full_folder_name(f.namespace_prefix, folder_name)
        ok == created /\ full_folder_name \notin f.mailboxes
    IN [f EXCEPT !.op = "create_folder", !.folder_name = folder_name,
                 !.commands = << [verb |-> "CREATE", name |-> full_folder_name] >>,
                 !.mailboxes = IF ok THEN @ \cup {full_folder_name} ELSE @,
                 !.returned = ok, !.prev = AsPrev(f), !.calls = @ + 1]

\* create_folder(folder_name); created: the server accepts the CREATE
create_folder(f, folder_name, created) ==
    LET full_folder_name == get_full_folder_name(f.namespace_prefix, folder_name)
        exists == full_folder_name \in f.mailboxes
    IN IF exists
       THEN [f EXCEPT !.op = "create_folder", !.folder_name = folder_name,
                      !.commands = << [verb |-> "LIST", name |-> full_folder_name] >>,
                      !.returned = TRUE, !.prev = AsPrev(f), !.calls = @ + 1]
       ELSE [f EXCEPT !.op = "create_folder", !.folder_name = folder_name,
                      !.commands = << [verb |-> "LIST", name |-> full_folder_name],
                                      [verb |-> "CREATE", name |-> full_folder_name] >>,
                      !.mailboxes = IF created THEN @ \cup {full_folder_name} ELSE @,
                      !.returned = created, !.prev = AsPrev(f), !.calls = @ + 1]

\* create_folder on the client, the server accepting the CREATE or not
CreateFolder ==
    /\ folders.calls < MaxFolderCalls
    /\ \E folder_name \in FolderNames, created \in BOOLEAN :
         folders' = create_folder(folders, folder_name, created)
    /\ UNCHANGED << engine_vars, item_call, imap, wire, batch_call, source, saver, mapper, flag_call, counters, store >>

\* upload_message on a healthy session: the folder name its APPEND carries;
\* the server refuses a folder it does not have
AppendResolve ==
    /\ folders.calls < MaxFolderCalls
    /\ \E folder_name \in FolderNames :
         LET full_folder_name == get_full_folder_name(folders.namespace_prefix, folder_name)
         IN folders' = [folders EXCEPT !.op = "upload_message", !.folder_name = folder_name,
                                       !.commands = << [verb |-> "APPEND", name |-> full_folder_name] >>,
                                       !.returned = full_folder_name \in folders.mailboxes,
                                       !.prev = AsPrev(folders), !.calls = @ + 1]
    /\ UNCHANGED << engine_vars, item_call, imap, wire, batch_call, source, saver, mapper, flag_call, counters, store >>

\* A client right after its construction (which connects), on a server that
\* has INBOX and any of the folders the names can resolve to.
FolderInit ==
    /\ account = "one"
    /\ EngineInit
    /\ imap = ImapNew
    /\ wire = WireInit
    /\ batch_call = BatchIdle
    /\ source = SourceInit
    /\ saver = SaverIdle
    /\ item_call = Idle.item_call
    /\ \E answer \in NamespaceAnswers, had \in SUBSET { InboxDot \o << "W", "o", "r", "k" >>, << "W", "o", "r", "k" >> } :
         folders = [Idle.folders EXCEPT !.answer = answer,
                                       !.namespace_prefix = connect(answer),
                                       !.mailboxes = {INBOX} \cup had]
    /\ mapper = Idle.mapper
    /\ flag_call = Idle.flag_call
    /\ counters = Idle.counters
    /\ store = Idle.store

FolderNext ==
    \/ CreateFolder
    \/ AppendResolve

FolderSpec == FolderInit /\ [][FolderNext]_vars

(* --------------------------- Folder Mapper ---------------------------- *)
\* str.replace(old, new): every occurrence, left to right
RECURSIVE replace(_, _, _)
replace(s, old, new) ==
    IF Len(s) < Len(old) THEN s
    ELSE IF SubSeq(s, 1, Len(old)) = old
         THEN new \o replace(SubSeq(s, Len(old) + 1, Len(s)), old, new)
         ELSE << s[1] >> \o replace(Tail(s), old, new)

\* str.strip(): leading and trailing blanks removed
strip(s) ==
    LET kept == {k \in 1..Len(s) : s[k] # " "}
    IN IF kept = {} THEN <<>>
       ELSE SubSeq(s, CHOOSE k \in kept : \A j \in kept : k <= j,
                      CHOOSE k \in kept : \A j \in kept : k >= j)

\* faulty variant of the loop body: the backslash becomes a slash (C22 fails with it)
create_folder_mapping_slashed(label_mappings, label_name) ==
    IF label_name \in DOMAIN label_mappings THEN label_mappings[label_name]
    ELSE strip(replace(replace(replace(label_name, << "/" >>, << "_" >>),
                               << "\\" >>, << "/" >>),
                       << "[", "G", "m", "a", "i", "l", "]", "/" >>, <<>>))

\* create_folder_mappings, the folder name of one label: the configured
\* mapping if there is one, the cleaned label name otherwise
create_folder_mapping(label_mappings, label_name) ==
    IF label_name \in DOMAIN label_mappings THEN label_mappings[label_name]
    ELSE strip(replace(replace(replace(label_name, << "/" >>, << "_" >>),
                               << "\\" >>, << "_" >>),
                       << "[", "G", "m", "a", "i", "l", "]", "/" >>, <<>>))

\* label display names: every name of up to MaxNameLen characters out of
\* a / \ blank _ and two Gmail system names
LabelNames ==
    UNION { [1..n -> {"a", "/", "\\", " ", "_"}] : n \in 0..MaxNameLen }
    \cup { << "[", "G", "m", "a", "i", "l", "]", "/", "a" >>,
           << "[", "G", "m", "a", "i", "l", "]", "/", "[", "G", "m", "a", "i", "l", "]", "/" >> }

\* label_mappings of the configuration: any mapping of the labels a and a/b
\* to the folders b, a, "a/b" and " b"
LabelMappings ==
    UNION { [keys -> { << "b" >>, << "a" >>, << "a", "/", "b" >>, << " ", "b" >> }] :
              keys \in SUBSET { << "a" >>, << "a", "/", "b" >> } }

\* the loop body of create_folder_mappings for the label
MapLabel ==
    /\ mapper.pc = "start"
    /\ mapper' = [mapper EXCEPT !.pc = "mapped",
                    !.folder_name = create_folder_mapping(mapper.label_mappings,
                                                          mapper.label_name)]
    /\ UNCHANGED << engine_vars, item_call, imap, wire, batch_call, source, saver, folders, flag_call, counters, store >>

\* the loop body again, for a label named like the folder
RemapLabel ==
    /\ mapper.pc = "mapped"
    /\ mapper' = [mapper EXCEPT !.pc = "remapped",
                    !.again = create_folder_mapping(mapper.label_mappings,
                                                    mapper.folder_name)]
    /\ UNCHANGED << engine_vars, item_call, imap, wire, batch_call, source, saver, folders, flag_call, counters, store >>

MapperInit ==
    /\ account = "one"
    /\ EngineInit
    /\ imap = ImapNew
    /\ wire = WireInit
    /\ batch_call = BatchIdle
    /\ source = SourceInit
    /\ saver = SaverIdle
    /\ item_call = Idle.item_call
    /\ folders = Idle.folders
    /\ \E label_mappings \in LabelMappings, label_name \in LabelNames :
         mapper = [Idle.mapper EXCEPT !.pc = "start", !.label_mappings = label_mappings,
                                     !.label_name = label_name]
    /\ flag_call = Idle.flag_call
    /\ counters = Idle.counters
    /\ store = Idle.store

MapperNext ==
    \/ MapLabel
    \/ RemapLabel

MapperSpec == MapperInit /\ [][MapperNext]_vars

(* ------------------------------- flags -------------------------------- *)
\* what a Gmail answer can carry as labelIds: the key absent, or any set of
\* these labels
MessageData ==
    { [has_labelIds |-> FALSE, labelIds |-> {}] }
    \cup { [has_labelIds |-> TRUE, labelIds |-> ids] :
             ids \in SUBSET {"INBOX", "UNREAD", "STARRED", "IMPORTANT", "SENT"} }

\* gmail_fetcher_thread, "Extract flags"
fetcher_flags(message_data) ==
    LET labelIds == IF message_data.has_labelIds THEN message_data.labelIds ELSE {}
        flags1 == IF "UNREAD" \notin labelIds THEN << "\\Seen" >> ELSE <<>>
    IN IF "STARRED" \in labelIds THEN Append(flags1, "\\Flagged") ELSE flags1

\* faulty variant of the flags of transfer_message: Seen for the unread
\* messages (C24 fails with it)
transfer_message_flags_unread(message_data) ==
    LET labelIds == IF message_data.has_labelIds THEN message_data.labelIds ELSE {}
        flags1 == IF "UNREAD" \in labelIds THEN << "\\Seen" >> ELSE <<>>
    IN IF "STARRED" \in labelIds THEN Append(flags1, "\\Flagged") ELSE flags1

\* transfer_message, "Extract flags (basic implementation)"
transfer_message_flags(message_data) ==
    LET labelIds == IF message_data.has_labelIds THEN message_data.labelIds ELSE {}
        flags1 == IF "UNREAD" \notin labelIds THEN << "\\Seen" >> ELSE <<>>
    IN IF "STARRED" \in labelIds THEN Append(flags1, "\\Flagged") ELSE flags1

\* the fetcher processes the message of a batch answer and caches it
FetcherCaches ==
    /\ flag_call.pc = "fetched"
    /\ flag_call.path = "batch"
    /\ flag_call' = [flag_call EXCEPT !.pc = "cached",
                                      !.cached = fetcher_flags(flag_call.message_data)]
    /\ UNCHANGED << engine_vars, item_call, imap, wire, batch_call, source, saver, folders, mapper, counters, store >>

\* transfer_message, the cache not holding the message: it derives the flags
\* from the answer of get_message and caches them
TransferMessageCaches ==
    /\ flag_call.pc = "fetched"
    /\ flag_call.path = "single"
    /\ flag_call' = [flag_call EXCEPT !.pc = "cached",
                                      !.cached = transfer_message_flags(flag_call.message_data)]
    /\ UNCHANGED << engine_vars, item_call, imap, wire, batch_call, source, saver, folders, mapper, counters, store >>

\* upload_message(folder_name, raw_message, flags, msg_time) hands its flags
\* to client.append: the cache entry's on the batch path, the flags just
\* derived on the single path
UploadFlags ==
    /\ flag_call.pc = "cached"
    /\ flag_call' = [flag_call EXCEPT !.pc = "appended", !.appended = flag_call.cached]
    /\ UNCHANGED << engine_vars, item_call, imap, wire, batch_call, source, saver, folders, mapper, counters, store >>

\* One message as Gmail answered it, on either path.
FlagInit ==
    /\ account = "one"
    /\ EngineInit
    /\ imap = ImapNew
    /\ wire = WireInit
    /\ batch_call = BatchIdle
    /\ source = SourceInit
    /\ saver = SaverIdle
    /\ item_call = Idle.item_call
    /\ folders = Idle.folders
    /\ mapper = Idle.mapper
    /\ \E message_data \in MessageData, path \in {"batch", "single"} :
         flag_call = [Idle.flag_call EXCEPT !.pc = "fetched", !.message_data = message_data,
                                      !.path = path]
    /\ counters = Idle.counters
    /\ store = Idle.store

FlagNext ==
    \/ FetcherCaches
    \/ TransferMessageCaches
    \/ UploadFlags

FlagSpec == FlagInit /\ [][FlagNext]_vars

(* ------------------------ cache_misses counter ------------------------ *)
\* The fetcher (cache insertion of a batch answer) and the uploader (cache
\* insertion of transfer_message after its single fetch) each insert into the
\* cache and then execute `self.cache_misses += 1`: the attribute is loaded,
\* one is added, the result is stored. No lock is held; the interpreter may
\* switch threads between the bytecodes.
\* self.message_cache[id] = {...}
StageInsert(t) ==
    /\ counters[t].pc = "insert"
    /\ counters' = [counters EXCEPT ![t].pc = "load", !.inserted = @ + 1]
    /\ UNCHANGED << engine_vars, item_call, imap, wire, batch_call, source, saver, folders, mapper, flag_call, store >>

\* self.cache_misses += 1: the load of the attribute
StageLoad(t) ==
    /\ counters[t].pc = "load"
    /\ counters' = [counters EXCEPT ![t].pc = "store", ![t].tos = counters.cache_misses]
    /\ UNCHANGED << engine_vars, item_call, imap, wire, batch_call, source, saver, folders, mapper, flag_call, store >>

\* self.cache_misses += 1: the add and the store of the attribute
StageStore(t) ==
    /\ counters[t].pc = "store"
    /\ counters' = [counters EXCEPT
                      !.cache_misses = counters[t].tos + 1,
                      ![t] = [pc |-> IF counters[t].todo > 1 THEN "insert" ELSE "done",
                              todo |-> counters[t].todo - 1, tos |-> 0]]
    /\ UNCHANGED << engine_vars, item_call, imap, wire, batch_call, source, saver, folders, mapper, flag_call, store >>

\* A pipeline in which the fetcher has up to MaxInsertions messages to cache
\* and the uploader up to MaxInsertions messages to fetch singly.
CounterInit ==
    /\ account = "one"
    /\ EngineInit
    /\ imap = ImapNew
    /\ wire = WireInit
    /\ batch_call = BatchIdle
    /\ source = SourceInit
    /\ saver = SaverIdle
    /\ item_call = Idle.item_call
    /\ folders = Idle.folders
    /\ mapper = Idle.mapper
    /\ flag_call = Idle.flag_call
    /\ \E nf \in 0..MaxInsertions, nu \in 0..MaxInsertions :
         counters = [Idle.counters EXCEPT
                       !.fetcher = [pc |-> IF nf > 0 THEN "insert" ELSE "done",
                                    todo |-> nf, tos |-> 0],
                       !.uploader = [pc |-> IF nu > 0 THEN "insert" ELSE "done",
                                     todo |-> nu, tos |-> 0]]
    /\ store = Idle.store

CounterNext ==
    \E t \in {"fetcher", "uploader"} :
        \/ StageInsert(t)
        \/ StageLoad(t)
        \/ StageStore(t)

CounterSpec == CounterInit /\ [][CounterNext]_vars

(* ------------------- ProgressManager, called directly ----------------- *)
\* mark_message_completed(message_id, label) on the store
StoreMark ==
    /\ store.n < MaxStoreCalls
    /\ \E label \in LabelIds, message_id \in MsgIds :
         store' = [store EXCEPT
                     !.progress = mark_message_completed(@, message_id, label),
                     !.call = [op |-> "mark", label |-> label, message_id |-> message_id,
                               before |-> store.progress, writes_before |-> store.writes,
                               repeat |-> /\ store.call.op = "mark"
                                          /\ store.call.label = label
                                          /\ store.call.message_id = message_id],
                     !.n = @ + 1]
    /\ UNCHANGED << engine_vars, item_call, imap, wire, batch_call, source, saver, folders, mapper, flag_call, counters >>

\* save_progress_batch(force=True): the file is opened for writing and dumped
StoreSave ==
    /\ store.n < MaxStoreCalls
    /\ store' = [store EXCEPT
                   !.writes = @ + 1,
                   !.call = [op |-> "save", label |-> "", message_id |-> "",
                             before |-> store.progress, writes_before |-> store.writes,
                             repeat |-> FALSE],
                   !.n = @ + 1]
    /\ UNCHANGED << engine_vars, item_call, imap, wire, batch_call, source, saver, folders, mapper, flag_call, counters >>

\* A ProgressManager that found no file, or a file with two refs of L1.
StoreInit ==
    /\ account = "one"
    /\ EngineInit
    /\ imap = ImapNew
    /\ wire = WireInit
    /\ batch_call = BatchIdle
    /\ source = SourceInit
    /\ saver = SaverIdle
    /\ item_call = Idle.item_call
    /\ folders = Idle.folders
    /\ mapper = Idle.mapper
    /\ flag_call = Idle.flag_call
    /\ counters = Idle.counters
    /\ \E file \in { NoFile,
                     [state |-> "ok",
                      rec |-> [FreshProgress EXCEPT !.transferred_messages =
                                  [l \in {"L1"} |-> << "b", "a" >>]]] } :
         store = [Idle.store EXCEPT !.progress = load_progress(file)]

StoreNext ==
    \/ StoreMark
    \/ StoreSave

StoreSpec == StoreInit /\ [][StoreNext]_vars

(* ------------- the uploader's loop body, item after item -------------- *)
\* imap_uploader_thread: an item is taken off the queue and
\* transfer_message_from_cache is called for it; a call that returns counts
\* an upload, a call that raises is logged and counts an error; the loop goes
\* on with the next item
ItemTransfer ==
    /\ item_call.items < MaxItems
    /\ \E cached \in BOOLEAN :
         \E r \in transfer_message_from_cache_from(cached, item_call.client, 0) :
           item_call' = [ client |-> r.client, cached |-> cached, appends |-> r.appends,
                          returned |-> r.returned,
                          items |-> item_call.items + 1,
                          uploaded |-> item_call.uploaded + (IF r.returned THEN 1 ELSE 0),
                          errors |-> item_call.errors + (IF r.returned THEN 0 ELSE 1) ]
    /\ UNCHANGED << engine_vars, imap, wire, batch_call, source, saver, folders, mapper, flag_call,
                    counters, store >>

\* An uploader with a connected IMAP client; the items it takes are in the
\* cache or not, the Gmail Source and the IMAP server answer as they like.
ItemInit ==
    /\ account = "one"
    /\ EngineInit
    /\ imap = ImapNew
    /\ wire = WireInit
    /\ batch_call = BatchIdle
    /\ source = SourceInit
    /\ saver = SaverIdle
    /\ folders = Idle.folders
    /\ mapper = Idle.mapper
    /\ flag_call = Idle.flag_call
    /\ counters = Idle.counters
    /\ store = Idle.store
    /\ item_call = Idle.item_call

ItemNext == ItemTransfer

ItemSpec == ItemInit /\ [][ItemNext]_vars

(* ------------------------- observed quantities ------------------------ *)
\* (l, m) is in transferred_messages of the record the current run loaded
Loaded(l, m) ==
    /\ l \in DOMAIN obs.loaded.transferred_messages
    /\ m \in Range(obs.loaded.transferred_messages[l])

\* (l, m) is in transferred_messages of the in-memory record
Transferred(l, m) ==
    /\ l \in DOMAIN progress.transferred_messages
    /\ m \in Range(progress.transferred_messages[l])

\* (l, m) is in transferred_messages of what the file holds, or held before
\* the write that truncated it
OnDisk(l, m) ==
    /\ l \in DOMAIN progress_file.rec.transferred_messages
    /\ m \in Range(progress_file.rec.transferred_messages[l])

\* the ids of the labels that run() transfers, and the refs of a label
TransferLabelIds == {labels[k].id : k \in 1..Len(labels)}
Listed(l) == Range(message_ids(l))

\* run() has returned and no thread of the process is left
RunEnded == main.pc = "exited" /\ ~ThreadsAlive

\* nothing went wrong in the current run so far: no signal, no failed APPEND
\* attempt, no failed Gmail call or client setup
CleanRun == ~shutdown_requested /\ ~obs.append_failed /\ ~obs.call_failed

\* successful APPENDs of (l, m), the previous run and the current one together
Appends(l, m) ==
    (IF <<l, m>> \in obs.prev_uploaded THEN 1 ELSE 0)
      + (IF <<l, m>> \in obs.succeeded THEN 1 ELSE 0)

\* uploads in flight: uploader threads inside transfer_message_from_cache
InFlightUploads ==
    Cardinality({l \in LabelIds : uploader[l].pc \in {"upload", "gmail_get"}})

\* the size of the batch a fetcher is working on (0 between batches)
CurrentBatch(l) ==
    IF fetcher[l].pc \in {"fetching", "put", "blocked"}
    THEN Len(Batch(l, fetcher[l].i)) ELSE 0

RECURSIVE SumOver(_, _)
SumOver(S, f) ==
    IF S = {} THEN 0
    ELSE LET x == CHOOSE y \in S : TRUE IN f[x] + SumOver(S \ {x}, f)

FetchedCurrentBatch == SumOver(LabelIds, [l \in LabelIds |-> CurrentBatch(l)])

(* ------------------------------- claims ------------------------------- *)
\* C1 (partial-label resume): when a run that loaded, for a label l, a
\* non-empty proper subset T of l's message list has ended without any
\* failure or signal, no APPEND was sent for a ref of T and every other ref
\* of l was APPENDed in that run.
C1_PartialLabelResumed ==
    \A l \in TransferLabelIds :
        LET T == {m \in MsgIds : Loaded(l, m)} IN
        (RunEnded /\ CleanRun /\ T # {} /\ T \subseteq Listed(l) /\ T # Listed(l))
            => /\ \A m \in T : <<l, m>> \notin obs.issued
               /\ \A m \in Listed(l) \ T : <<l, m>> \in obs.succeeded

\* C2 (resume after crash): in a run that follows a kill, no APPEND is sent
\* for a (label, ref) that is in transferred_messages of the progress file as
\* it was at kill time.
C2_NoAppendOfPersisted ==
    obs.prev = "killed" => \A q \in obs.issued : ~Loaded(q[1], q[2])

\* a run after a kill, which no signal has reached, has worked through a
\* label of which one ref was persisted and has sent an APPEND for another
\* ref of that label
C2_Witness ==
    /\ obs.prev = "killed"
    /\ ~shutdown_requested
    /\ \E l \in LabelIds : \E m, m2 \in Listed(l) :
         /\ Loaded(l, m)
         /\ <<l, m2>> \in obs.issued
         /\ fetcher[l].pc = "done"
         /\ uploader[l].pc = "done"

\* C3 (monotonic progress): a ref is in the in-memory transferred[l] only if
\* it was in the loaded record or an APPEND of it into l's folder was
\* answered OK earlier in this run.
C3_MonotonicProgress ==
    \A l \in LabelIds : \A m \in MsgIds :
        Transferred(l, m) => Loaded(l, m) \/ <<l, m>> \in obs.succeeded

\* a ref was marked in this run after failed APPEND attempts and a failed
\* Gmail call (retry, fallback and error paths were taken)
C3_Witness ==
    /\ obs.append_failed
    /\ obs.call_failed
    /\ \E l \in LabelIds : \E m \in MsgIds : Transferred(l, m) /\ ~Loaded(l, m)

\* C4 (resume exactness): after two consecutive runs in which no APPEND
\* attempt failed and no signal arrived (and the second of which saw no
\* failure at all), every ref of every transferred label has been APPENDed
\* exactly once, both runs counted together.
C4_ResumeExactness ==
    (obs.prev = "exited" /\ obs.prev_clean /\ RunEnded /\ CleanRun)
        => \A l \in TransferLabelIds : \A m \in Listed(l) : Appends(l, m) = 1

\* C5 (a failed upload is retried on the next run): a ref whose upload gave
\* up is not in transferred[l] when the run ends; and when other refs of its
\* label were uploaded in that run, the next run (which ends without any
\* failure or signal) has sent an APPEND for it.
C5_FailedUploadRetried ==
    /\ RunEnded => \A q \in obs.failed : ~Transferred(q[1], q[2])
    /\ (obs.prev = "exited" /\ RunEnded /\ CleanRun) => obs.prev_retry \subseteq obs.issued

\* C6 (crash-atomic flush): when the process is started again after a kill,
\* the record it loads holds every ref the progress file held before the
\* write that the kill interrupted (both the previous and the new record
\* hold them).
C6_CrashAtomicFlush ==
    (obs.prev = "killed" /\ main.pc = "setup")
        => \A l \in LabelIds : \A m \in MsgIds : OnDisk(l, m) => Loaded(l, m)

\* C7 (shutdown drain): once a signal has been delivered while threads of a
\* pipeline are alive, eventually no thread is alive, run() has returned and
\* the IMAP session is not open.
C7_ShutdownDrain ==
    (shutdown_requested /\ ThreadsAlive)
        ~> (~ThreadsAlive /\ main.pc = "exited" /\ imap_client # "connected")

\* C8 (end-of-stream sentinel): a fetcher that has left its batch loop (all
\* batches done, stop or shutdown seen, or an exception) eventually has
\* placed the sentinel on the queue.
C8_SentinelPlaced ==
    \A l \in LabelIds : (fetcher[l].pc = "sentinel") ~> (fetcher[l].pc = "done")

\* C9 (pipeline termination without shutdown): the threads of a label's
\* pipeline eventually both end, unless a shutdown is requested.
C9_PipelineTerminates ==
    \A l \in LabelIds :
        (FetcherAlive(l) \/ UploaderAlive(l))
            ~> ((~FetcherAlive(l) /\ ~UploaderAlive(l)) \/ shutdown_requested)

\* C10 (bounded cache): as long as no signal has arrived and no pipeline has
\* been stopped, the message cache never holds more entries than the queue
\* capacity plus the uploads in flight plus the size of the batch the fetcher
\* is working on.
C10_BoundedCache ==
    (~shutdown_requested /\ \A l \in LabelIds : ~stop_event[l])
        => Cardinality(message_cache) <= QueueCap + InFlightUploads + FetchedCurrentBatch

\* the uploader of l ends a transfer call in this step, and the server
\* answered an APPEND of the call with OK
AppendSucceeds(l) ==
    /\ run' = run
    /\ uploader[l].pc \in {"upload", "gmail_get"}
    /\ uploader'[l].pc \in {"top", "saving"}
    /\ uploader'[l].messages_processed = uploader[l].messages_processed + 1

\* the fetcher of l stores the messages that get_messages_batch returned
FetcherStores(l) ==
    /\ run' = run
    /\ fetcher[l].pc = "fetching"
    /\ fetcher'[l].pc = "put"

\* C11 (cache entry life cycle): during a run a cache entry is inserted only
\* by a fetcher action, it is removed only by the uploader action that
\* successfully APPENDs its message, and after a successful APPEND of m the
\* cache holds no entry for m (the clearing of the cache when run() ends is
\* not a removal of the life cycle).
C11_CacheLifeCycle ==
    [][ (run' = run /\ main.pc # "finally") =>
          /\ \A m \in message_cache' \ message_cache :
                \E l \in LabelIds : FetcherStores(l)
          /\ \A m \in message_cache \ message_cache' :
                \E l \in LabelIds : AppendSucceeds(l) /\ uploader[l].item = m
          /\ \A l \in LabelIds :
                AppendSucceeds(l) => uploader[l].item \notin message_cache' ]_vars

\* C12 (cross-label fetch deduplication): within one run (here: a run that
\* no signal and no failure has touched) the Gmail Source delivers a message
\* ref at most once, also when the ref belongs to two labels.
C12_FetchedOnce ==
    CleanRun => \A m \in MsgIds : obs.fetches[m] <= 1

\* C13 (one pipeline at a time): at most one fetcher thread and at most one
\* uploader thread are alive, and at most one thread is inside a transfer
\* call (which uses the IMAP session).
C13_OnePipeline ==
    /\ Cardinality({l \in LabelIds : FetcherAlive(l)}) <= 1
    /\ Cardinality({l \in LabelIds : UploaderAlive(l)}) <= 1
    /\ InFlightUploads <= 1

\* C14 (durability at the end of a run): once run() has returned without
\* raising and every thread of the run has ended, the progress file holds
\* every (label, ref) whose APPEND was answered OK during the run.
C14_DurableAtEnd ==
    (RunEnded /\ ~main.raised)
        => /\ progress_file.state = "ok"
           /\ \A q \in obs.succeeded : OnDisk(q[1], q[2])

\* C16 (exit-path resource discipline): at the step in which run() returns or
\* raises, the progress file holds the in-memory record, the IMAP session is
\* not open and the message cache is empty.
C16_ExitDiscipline ==
    [][ (main.pc = "finally" /\ main'.pc = "exited") =>
          /\ progress_file' = Dumped(progress')
          /\ imap_client' # "connected"
          /\ message_cache' = {} ]_vars

\* C17 (session recycling): on an IMAPClient object whose history is free of
\* errors and whose session never reached the maximum age, the call that
\* sends APPEND number 101 or 201 sends exactly LOGOUT, LOGIN, APPEND, every
\* other call sends the APPEND alone; so APPENDs 1..100 see no LOGOUT, and one
\* LOGOUT with a reconnect precedes the 101st and again the 201st.
C17_SessionRecycling ==
    (wire.called /\ wire.clean) =>
        /\ wire.last = IF wire.appends \in {101, 201}
                       THEN <<"LOGOUT", "LOGIN", "APPEND_OK">>
                       ELSE <<"APPEND_OK">>
        /\ wire.logouts = (wire.appends - 1) \div 100

\* 201 APPENDs have been sent on an error-free history, with two LOGOUTs
C17_Witness ==
    wire.clean /\ wire.appends = 201 /\ wire.logouts = 2

\* C18 (permanent APPEND errors are not retried): when the server answers an
\* APPEND of an upload_message call with a permanent error, that APPEND is
\* the last command of the call (no further APPEND, no reconnect) and the
\* call raises.
C18_PermanentNotRetried ==
    \A k \in 1..Len(wire.last) :
        wire.last[k] = "APPEND_PERMANENT" => k = Len(wire.last) /\ ~wire.returned

\* C15 (bounded persistence lag): while a pipeline is uploading, at most
\* progress_save_interval uploaded messages are missing from the progress
\* file, or the oldest upload that is missing is at most 30 s old.
C15_BoundedLag ==
    \/ Len(saver.unsaved) <= SaveInterval
    \/ saver.now - saver.unsaved[1] <= 30

\* C19 (rate-limit survival): when the source answered 429 (per item or for
\* the whole batch) only on first attempts of chunks and delivered on every
\* later attempt, get_messages_batch returns, and the keys of the mapping it
\* returns are exactly the requested refs.
C19_RateLimitSurvival ==
    (source.as_p5 /\ batch_call.pc \in {"returned", "raised"})
        => /\ batch_call.pc = "returned"
           /\ batch_call.all_messages = Range(batch_call.message_ids)

\* a call over two chunks has returned; the first attempt of each chunk met
\* a 429 and every later attempt delivered
C19_Witness ==
    /\ batch_call.pc = "returned"
    /\ source.as_p5
    /\ source.limited_chunks = 2
    /\ Len(batch_call.message_ids) = MaxRequest

\* C20 (fallback after exhausted batch retries): when get_messages_batch
\* returns, every ref that was still missing after the three batch attempts
\* of its chunk, having met a 429 (its own or the batch's) in each of them,
\* has been requested by a single-item fetch; and no ref is requested singly
\* more than three times.
C20_FallbackAfterRetries ==
    /\ batch_call.pc = "returned" => source.starved \subseteq source.singles
    /\ source.tries <= 3

\* C21: every command of a folder operation (existence test, CREATE, APPEND)
\* carries the folder name itself if it is INBOX (in any case) or begins with
\* the prefix discovered at connect (the empty prefix included), and the
\* prefix followed by the name otherwise.
C21_NamespaceResolution ==
    LET p == folders.namespace_prefix
        n == folders.folder_name
        resolved == IF upper(n) = INBOX THEN INBOX
                    ELSE IF startswith(n, p) THEN n ELSE p \o n
    IN \A k \in 1..Len(folders.commands) : folders.commands[k].name = resolved

\* C23: a second create_folder with the same name, after one that returned,
\* sends no CREATE and leaves the server's folders as they were.
C23_CreateFolderIdempotent ==
    ( /\ folders.op = "create_folder"
      /\ folders.prev.op = "create_folder"
      /\ folders.prev.folder_name = folders.folder_name
      /\ folders.prev.returned )
    => /\ \A k \in 1..Len(folders.commands) : folders.commands[k].verb # "CREATE"
       /\ folders.mailboxes = folders.prev.mailboxes
       /\ folders.returned

\* a second create_folder of a folder the first call had to CREATE
C23_Witness ==
    /\ folders.op = "create_folder"
    /\ folders.prev.op = "create_folder"
    /\ folders.prev.folder_name = folders.folder_name
    /\ folders.prev.returned
    /\ \E k \in 1..Len(folders.prev.commands) : folders.prev.commands[k].verb = "CREATE"
    /\ folders.folder_name = << "W", "o", "r", "k" >>
    /\ folders.commands = << [verb |-> "LIST", name |-> << "M", "a", "i", "l", "/", "W", "o", "r", "k" >>] >>

C24_FlagDerivation ==
    flag_call.pc = "appended" =>
        LET labelIds == flag_call.message_data.labelIds
            expected == (IF "UNREAD" \in labelIds THEN {} ELSE {"\\Seen"})
                        \cup (IF "STARRED" \in labelIds THEN {"\\Flagged"} ELSE {})
        IN /\ Range(flag_call.appended) = expected
           /\ Len(flag_call.appended) = Cardinality(expected)

\* an unread, starred message was appended after the uploader's single fetch
C24_Witness ==
    /\ flag_call.pc = "appended"
    /\ flag_call.path = "single"
    /\ flag_call.message_data.labelIds = {"INBOX", "UNREAD", "STARRED"}
    /\ flag_call.appended = << "\\Flagged" >>

\* C25: while the pipeline of a label runs, current_label names that label,
\* and once a run has completed without failure, with a label transferred,
\* current_label is the empty string.
C25_CurrentLabelTracked ==
    /\ main.pc \in {"monitor", "join"} => progress.current_label = labels[main.li].name
    /\ (RunEnded /\ CleanRun /\ ~main.raised /\ obs.succeeded # {})
           => progress.current_label = ""

\* C27: in no reachable state is the uploader of a pipeline inside a Gmail
\* request while the fetcher of that pipeline is running.
C27_GmailSingleOwner ==
    \A l \in LabelIds : uploader[l].pc = "gmail_get" => ~FetcherAlive(l)

\* C26: no update of cache_misses is lost: when both stages have finished,
\* cache_misses equals the number of cache insertions they performed.
C26_NoLostCounterUpdate ==
    (counters.fetcher.pc = "done" /\ counters.uploader.pc = "done")
        => counters.cache_misses = counters.inserted

\* C28: after mark_message_completed(ref, label) the ref occurs exactly once
\* in transferred_messages[label], no other label's list has changed, and
\* the progress file was not written by the call; when the call repeats the
\* call before it, the record is as that call left it.
C28_MarkIdempotent ==
    store.call.op = "mark" =>
        LET t == store.progress.transferred_messages
            b == store.call.before.transferred_messages
            l == store.call.label
        IN /\ l \in DOMAIN t
           /\ Cardinality({k \in 1..Len(t[l]) : t[l][k] = store.call.message_id}) = 1
           /\ DOMAIN t = DOMAIN b \cup {l}
           /\ \A x \in DOMAIN b \ {l} : t[x] = b[x]
           /\ store.writes = store.call.writes_before
           /\ store.call.repeat => store.progress = store.call.before

\* a ref was marked twice in a row in a label that holds other refs, after a save
C28_Witness ==
    /\ store.call.op = "mark"
    /\ store.call.repeat
    /\ store.writes = 1
    /\ store.progress.transferred_messages[store.call.label] = << "b", "a", "c" >>

\* C29: one call of upload_message sends at most 3 APPEND commands; it
\* returns exactly when one of them was answered OK (that one is its last
\* command), and raises in every other case.
C29_AppendOutcome ==
    LET appends == {k \in 1..Len(wire.last) :
                      wire.last[k] \in {"APPEND_OK", "APPEND_TRANSPORT", "APPEND_PERMANENT"}}
    IN wire.called =>
        /\ Cardinality(appends) <= 3
        /\ wire.returned <=> (\E k \in appends : wire.last[k] = "APPEND_OK")
        /\ \A k \in appends : wire.last[k] = "APPEND_OK" => k = Len(wire.last)

\* a call that returned after two failed APPENDs, and reconnects, on the third
C29_Witness ==
    /\ wire.called
    /\ wire.returned
    /\ wire.last[1] = "APPEND_TRANSPORT"
    /\ Cardinality({k \in 1..Len(wire.last) :
                      wire.last[k] \in {"APPEND_OK", "APPEND_TRANSPORT", "APPEND_PERMANENT"}}) = 3

\* C30: while the process lives and stop_event is not set, the fetcher gets
\* past a ref of its batch only by finding it transferred or by enqueuing
\* it, once, whether or not the ref is in the cache, and then goes on to the
\* next ref; and when the uploader's call for a ref that was absent from the
\* cache ends with an APPEND answered OK, the ref was fetched singly in that
\* call and is marked transferred.
C30_PartialFetchNoLoss ==
    [][ \A l \in LabelIds :
          LET f == fetcher[l]
              u == uploader[l]
              \* the fetcher gets past the ref at position j of its batch
              passes == /\ run' = run
                        /\ f.pc \in {"put", "blocked"}
                        /\ fetcher'[l] # f
                        /\ fetcher'[l].pc # "blocked"
                        /\ ~stop_event[l]
              \* the uploader's call for a ref that was not cached ends
              ends == /\ run' = run
                      /\ u.pc = "gmail_get"
                      /\ uploader'[l] # u
          IN /\ passes =>
                   LET m == Batch(l, f.i)[f.j]
                   IN /\ fetcher'[l] = AfterPut(l, [f EXCEPT !.pc = "put"])
                      /\ IF is_message_transferred(progress, m, l) /\ f.pc = "put"
                         THEN message_queue'[l] = message_queue[l]
                         ELSE message_queue'[l] = Append(message_queue[l], m)
             /\ (ends /\ << l, u.item >> \in obs'.succeeded) =>
                   /\ is_message_transferred(progress', u.item, l)
                   /\ obs'.fetches[u.item] = Min(obs.fetches[u.item] + 1, MaxFetches) ]_vars

\* message a of label L1, which the batch fetch did not return, was enqueued,
\* fetched singly, appended and marked transferred
C30_Witness ==
    /\ account = "one"
    /\ obs.call_failed
    /\ ~obs.append_failed
    /\ obs.fetches["a"] = 1
    /\ "a" \in message_cache
    /\ << "L1", "a" >> \in obs.succeeded
    /\ is_message_transferred(progress, "a", "L1")

C32_OnlyRateLimitedRetried ==
    (batch_call.pc = "execute" /\ batch_call.attempt > 0) =>
        Range(batch_call.batch_ids) \cap source.failed = {}

\* C33: a call of save_progress_batch(force=False) writes the progress file
\* exactly when at least 30 s have passed since the file was last written,
\* by whichever save; a call with force=True always writes.
C33_FlushPredicate ==
    saver.flush.called =>
        (saver.flush.wrote <=> (saver.flush.force \/ saver.flush.since >= SaveSeconds))

\* C34: after the signal of a run the uploader begins the transfer of at most
\* one further queue item (it does not get past its check at the top of the
\* loop again, and begins a transfer only after a check), and the fetcher
\* begins no further call of get_messages_batch.
C34_PromptStageExit ==
    [][ run' = run =>
          \A l \in LabelIds :
            /\ (shutdown_requested /\ uploader'[l].pc = "get") => uploader[l].pc = "get"
            /\ (uploader'[l].pc \in {"upload", "gmail_get"} /\ uploader'[l] # uploader[l])
                   => uploader[l].pc = "get"
            /\ ~fetcher'[l].late ]_vars

\* C34, as the code has it: the fetcher looks at the flag at the top of its
\* loop, before it filters the batch, and the uploader before it waits for
\* the queue. After the signal neither stage gets past its check again, and
\* either begins a unit of work (a transfer, a call of get_messages_batch)
\* only after having passed the check: at most one further unit each.
C34_OneFurtherUnit ==
    [][ run' = run =>
          \A l \in LabelIds :
            /\ (shutdown_requested /\ uploader'[l].pc = "get") => uploader[l].pc = "get"
            /\ (uploader'[l].pc \in {"upload", "gmail_get"} /\ uploader'[l] # uploader[l])
                   => uploader[l].pc = "get"
            /\ (shutdown_requested /\ fetcher'[l].pc = "filter") => fetcher[l].pc = "filter"
            /\ (fetcher'[l].pc = "fetching" /\ fetcher'[l] # fetcher[l])
                   => fetcher[l].pc = "filter" ]_vars

\* the signal came while the fetcher was filtering its batch and the uploader
\* was waiting for the queue; both have gone on with one further unit
C34_Witness ==
    \E l \in LabelIds :
        /\ shutdown_requested
        /\ fetcher[l].pc = "fetching" /\ fetcher[l].late
        /\ uploader[l].pc = "upload" /\ uploader[l].late

C36_BoundedAppendsPerItem ==
    item_call.items > 0 =>
        /\ item_call.appends <= SafeTransferRetries * UploadRetries
        /\ item_call.uploaded + item_call.errors = item_call.items
        /\ ~item_call.returned => item_call.errors >= 1

\* C37: in the in-memory progress record and in the record the progress file
\* holds, 0 <= completed_labels <= total_labels, in every run, also in a run
\* that loaded the file an earlier run wrote.
C37_LabelCountersConsistent ==
    /\ 0 <= progress.completed_labels
    /\ progress.completed_labels <= progress.total_labels
    /\ progress_file.state = "ok" =>
          /\ 0 <= progress_file.rec.completed_labels
          /\ progress_file.rec.completed_labels <= progress_file.rec.total_labels

\* C38: a label that the loop of run() takes after shutdown has been
\* requested is not processed: no message listing is made and no pipeline is
\* started for it, and completed_labels is not incremented for it (the main
\* thread gets no further than the call of get_messages_by_label or the
\* increment).
C38_ShutdownStopsLabelLoop ==
    (main.late /\ main.li <= Len(labels)) =>
        main.pc \in {"label", "w_current", "list", "count", "finally", "exited"}

\* C39: when the pipeline of a label whose message list has no duplicates
\* ends with both stages completed, without a signal and without a stage
\* exception, its statistics satisfy skipped + uploaded + errors = number of
\* message ids of the label, and uploaded is the number of refs the pipeline
\* added to transferred_messages[label].
C39_PerLabelAccounting ==
    [][ (main.pc = "join" /\ main'.pc = "w_final" /\ run' = run) =>
          LET l == labels[main.li].id
              now == IF l \in DOMAIN progress.transferred_messages
                     THEN Len(progress.transferred_messages[l]) ELSE 0
          IN  (/\ ~shutdown_requested /\ ~stop_event[l] /\ ~fetcher[l].error
               /\ fetcher[l].pc = "done" /\ uploader[l].pc = "done"
               /\ Cardinality(Range(message_ids(l))) = Len(message_ids(l)))
              => /\ obs.stats.skipped + obs.stats.uploaded + obs.stats.errors
                      = Len(message_ids(l))
                 /\ obs.stats.uploaded = now - obs.stats.before ]_vars

\* the pipeline of INBOX (a, b) has ended, with both stages completed, in a
\* run that had loaded one of the two refs as transferred: one ref skipped,
\* one uploaded
C39_Witness ==
    /\ account = "two"
    /\ main.pc = "join"
    /\ labels[main.li].id = "INBOX"
    /\ ~shutdown_requested /\ ~stop_event["INBOX"] /\ ~fetcher["INBOX"].error
    /\ fetcher["INBOX"].pc = "done" /\ uploader["INBOX"].pc = "done"
    /\ obs.stats.skipped = 1
    /\ obs.stats.uploaded = 1
    /\ obs.stats.errors = 0
    /\ obs.stats.before = 1

\* C40: a call of get_messages_batch ends (it returns, or an exception that
\* is not an HTTP error leaves it); for each chunk it makes at most 3 batch
\* requests and at most 3 single-item requests per ref; and every key of the
\* mapping it returns is one of the requested refs.
C40_FetchBatchBounded ==
    /\ [](/\ batch_call.attempt <= BatchRetries - 1
          /\ source.tries <= IndividualRetries
          /\ Len(batch_call.batch_ids) <= MaxBatchSize
          /\ batch_call.all_messages \subseteq Range(batch_call.message_ids))
    /\ <>(batch_call.pc \in {"returned", "raised"})

\* a call for three refs has returned: the first chunk used its three batch
\* attempts and left a ref missing, the second fell back to single fetches
\* and made three requests for its ref
C40_Witness ==
    /\ batch_call.pc = "returned"
    /\ Len(batch_call.message_ids) = MaxRequest
    /\ source.starved # {}
    /\ source.singles # {}
    /\ source.tries = IndividualRetries
    /\ batch_call.all_messages # {}

====
